---- MODULE Spec2Model ----
(***************************************************************************)
(* ClawPay gatekeeper: the policy engine (core/policy.ts), the facade      *)
(* ClawPay.requestCard (core/clawpay.ts), the vault (core/vault.ts) and    *)
(* the approval channels (approval/*.ts).                                  *)
(*                                                                         *)
(* Amounts are JavaScript numbers in the source; the model uses small      *)
(* naturals (whole currency units), so floating-point rounding of sums is  *)
(* outside the model.  Strings are sequences of one-letter strings.        *)
(***************************************************************************)
EXTENDS Integers, Sequences, FiniteSets, TLC

(***************************************************************************)
(* Bounds of the model.                                                    *)
(***************************************************************************)
\* request amounts are 1..MaxAmount
MaxAmount == 3
\* ledgers drawn for the pure evaluation have at most MaxLedger entries
MaxLedger == 2

(***************************************************************************)
(* Local clock.  Date.now() is an integer; local midnight is the last      *)
(* multiple of DayLen, the first of the month the last multiple of         *)
(* DayLen * DaysPerMonth.                                                  *)
(***************************************************************************)
DayLen == 2
DaysPerMonth == 2
MonthLen == DayLen * DaysPerMonth

\* new Date(); setHours(0, 0, 0, 0); getTime()
startOfDay(t) == (t \div DayLen) * DayLen

\* new Date(); setDate(1); setHours(0, 0, 0, 0); getTime()
startOfMonth(t) == (t \div MonthLen) * MonthLen

(***************************************************************************)
(* JavaScript strings and arrays.                                          *)
(***************************************************************************)
\* String.prototype.toLowerCase on one character
lowerChar(ch) ==
  CASE ch = "A" -> "a"
    [] ch = "B" -> "b"
    [] OTHER -> ch

\* String.prototype.toLowerCase
toLowerCase(s) == [i \in DOMAIN s |-> lowerChar(s[i])]

\* String.prototype.includes: sub occurs in s as a contiguous run
includes(s, sub) ==
  \E i \in 0..(Len(s) - Len(sub)) : SubSeq(s, i + 1, i + Len(sub)) = sub

\* Array.prototype.find over the indices that satisfy the predicate: the
\* FIRST matching element, or undefined (found = FALSE)
find(list, hits) ==
  IF hits = {} THEN [found |-> FALSE, value |-> <<>>]
  ELSE LET first == CHOOSE i \in hits : \A j \in hits : i <= j
       IN  [found |-> TRUE, value |-> list[first]]

\* JavaScript truthiness of the value find returned: undefined and the empty
\* string are falsy
truthy(f) == f.found /\ f.value # <<>>

\* monthlyLimit?: number -- the absent (undefined) limit
NoLimit == -1

(***************************************************************************)
(* PolicyEngine.evaluate, rule by rule.  A rule yields its PolicyResult or *)
(* NoMatch.                                                                *)
(***************************************************************************)
Reason(rule, amount, spent, limit, text) ==
  [rule |-> rule, amount |-> amount, spent |-> spent, limit |-> limit, text |-> text]

PolicyResult(action, reason) == [action |-> action, reason |-> reason]

NoMatch == PolicyResult("none", Reason("none", 0, 0, 0, <<>>))

\* if (amount > this.policy.blockAbove) deny
ruleBlockAbove(request, policy) ==
  IF request.amount > policy.blockAbove
  THEN PolicyResult("deny",
         Reason("blockAbove", request.amount, 0, policy.blockAbove, <<>>))
  ELSE NoMatch

\* blockedMerchants?.length, find(...), if (blocked) deny
ruleBlockedMerchants(request, policy) ==
  LET merchantLower == toLowerCase(request.merchant)
      list == policy.blockedMerchants
      blocked == find(list, {i \in DOMAIN list :
                               includes(merchantLower, toLowerCase(list[i]))})
  IN  IF Len(list) # 0 /\ truthy(blocked)
      THEN PolicyResult("deny",
             Reason("blockedMerchant", 0, 0, 0, request.merchant))
      ELSE NoMatch

\* allowedMerchants?.length, some(...), if (!allowed) deny
ruleAllowedMerchants(request, policy) ==
  LET merchantLower == toLowerCase(request.merchant)
      list == policy.allowedMerchants
      allowed == \E i \in DOMAIN list :
                   includes(merchantLower, toLowerCase(list[i]))
  IN  IF Len(list) # 0 /\ ~allowed
      THEN PolicyResult("deny",
             Reason("notAllowedMerchant", 0, 0, 0, request.merchant))
      ELSE NoMatch

\* blockedKeywords.length, find(...), if (hit) deny
ruleBlockedKeywords(request, policy) ==
  LET descLower == toLowerCase(request.description)
      merchantLower == toLowerCase(request.merchant)
      list == policy.blockedKeywords
      hit == find(list, {i \in DOMAIN list :
                           \/ includes(descLower, toLowerCase(list[i]))
                           \/ includes(merchantLower, toLowerCase(list[i]))})
  IN  IF Len(list) # 0 /\ truthy(hit)
      THEN PolicyResult("deny", Reason("blockedKeyword", 0, 0, 0, hit.value))
      ELSE NoMatch

\* logs.filter(...).reduce((sum, l) => sum + l.payment.amount, 0)
RECURSIVE reduceAmounts(_, _)
reduceAmounts(logs, sum) ==
  IF logs = <<>> THEN sum
  ELSE reduceAmounts(Tail(logs), sum + Head(logs).payment.amount)

\* mutant: the approved flag of an entry is not looked at
stampedSince(l, since) == l.timestamp >= since

\* the filter of getTodaySpending and getMonthSpending
approvedSince(l, since) == l.approved /\ l.timestamp >= since

\* mutant: the day's spend is taken to be nothing
getTodaySpendingZero(logs, t) == 0

\* PolicyEngine.getTodaySpending on the logs it read, at clock t
getTodaySpending(logs, t) ==
  LET since == startOfDay(t)
      keep(l) == approvedSince(l, since)
  IN  reduceAmounts(SelectSeq(logs, keep), 0)

\* PolicyEngine.getMonthSpending on the logs it read, at clock t
getMonthSpending(logs, t) ==
  LET since == startOfMonth(t)
      keep(l) == approvedSince(l, since)
  IN  reduceAmounts(SelectSeq(logs, keep), 0)

\* mutant: the request's own amount is left out of the daily comparison
ruleDailyLimitSpentOnly(request, policy, logs, t) ==
  LET todaySpent == getTodaySpending(logs, t)
  IN  IF todaySpent > policy.dailyLimit
      THEN PolicyResult("deny",
             Reason("dailyLimit", 0, todaySpent, policy.dailyLimit, <<>>))
      ELSE NoMatch

\* if (todaySpent + amount > this.policy.dailyLimit) deny
ruleDailyLimit(request, policy, logs, t) ==
  LET todaySpent == getTodaySpending(logs, t)
  IN  IF todaySpent + request.amount > policy.dailyLimit
      THEN PolicyResult("deny",
             Reason("dailyLimit", 0, todaySpent, policy.dailyLimit, <<>>))
      ELSE NoMatch

\* if (this.policy.monthlyLimit): undefined and 0 are falsy
monthlyLimitSet(policy) == policy.monthlyLimit # NoLimit /\ policy.monthlyLimit # 0

\* if (monthSpent + amount > this.policy.monthlyLimit) deny
ruleMonthlyLimit(request, policy, logs, t) ==
  LET monthSpent == getMonthSpending(logs, t)
  IN  IF monthlyLimitSet(policy) /\ monthSpent + request.amount > policy.monthlyLimit
      THEN PolicyResult("deny",
             Reason("monthlyLimit", 0, monthSpent, policy.monthlyLimit, <<>>))
      ELSE NoMatch

\* mutant: strict comparison, the threshold itself is not auto-approved
ruleAutoApproveStrict(request, policy) ==
  IF request.amount < policy.autoApproveUnder
  THEN PolicyResult("auto_approve",
         Reason("autoApproveUnder", request.amount, 0, policy.autoApproveUnder, <<>>))
  ELSE NoMatch

\* if (amount <= this.policy.autoApproveUnder) auto_approve
ruleAutoApprove(request, policy) ==
  IF request.amount <= policy.autoApproveUnder
  THEN PolicyResult("auto_approve",
         Reason("autoApproveUnder", request.amount, 0, policy.autoApproveUnder, <<>>))
  ELSE NoMatch

\* mutant: the final return asks the human only above requireApprovalAbove
ruleRequireApprovalAbove(request, policy) ==
  IF request.amount > policy.requireApprovalAbove
  THEN PolicyResult("require_approval",
         Reason("requireApprovalAbove", request.amount, 0, policy.requireApprovalAbove, <<>>))
  ELSE PolicyResult("auto_approve",
         Reason("autoApproveUnder", request.amount, 0, policy.autoApproveUnder, <<>>))

\* the final return: require_approval
ruleRequireApproval(request, policy) ==
  PolicyResult("require_approval",
    Reason("requireApprovalAbove", request.amount, 0, policy.requireApprovalAbove, <<>>))

\* the early returns of evaluate: the first rule of the sequence that matched
firstMatch(results) ==
  LET hits == {i \in DOMAIN results : results[i] # NoMatch}
  IN  IF hits = {} THEN NoMatch
      ELSE results[CHOOSE i \in hits : \A j \in hits : i <= j]

\* evaluate up to its first await: the hard block, the lists, the keywords and
\* the daily limit on the logs getTodaySpending read
evaluateToDaily(request, policy, logs, t) ==
  firstMatch(<< ruleBlockAbove(request, policy),
                ruleBlockedMerchants(request, policy),
                ruleAllowedMerchants(request, policy),
                ruleBlockedKeywords(request, policy),
                ruleDailyLimit(request, policy, logs, t) >>)

\* the rest of evaluate: the monthly limit on the logs getMonthSpending read,
\* then the thresholds
evaluateFromMonthly(request, policy, logs, t) ==
  firstMatch(<< ruleMonthlyLimit(request, policy, logs, t),
                ruleAutoApprove(request, policy),
                ruleRequireApproval(request, policy) >>)

\* mutant: the three amount thresholds are checked together, after the lists
\* and the limits
evaluateThresholdsLast(request, policy, logs, t) ==
  firstMatch(<< ruleBlockedMerchants(request, policy),
                ruleAllowedMerchants(request, policy),
                ruleBlockedKeywords(request, policy),
                ruleDailyLimit(request, policy, logs, t),
                ruleMonthlyLimit(request, policy, logs, t),
                ruleBlockAbove(request, policy),
                ruleAutoApprove(request, policy),
                ruleRequireApproval(request, policy) >>)

\* PolicyEngine.evaluate on one snapshot of the transaction log
evaluate(request, policy, logs, t) ==
  firstMatch(<< evaluateToDaily(request, policy, logs, t),
                evaluateFromMonthly(request, policy, logs, t) >>)

(***************************************************************************)
(* The gatekeeper: ClawPay.requestCard over the vault, the policy engine,  *)
(* the transaction log and the approval channels.  A step is the code      *)
(* between two awaits; the vault commands, the clock, the human and the    *)
(* remote parties act between the steps of a call.                         *)
(***************************************************************************)
\* at most MaxRequests calls of requestCard are started
MaxRequests == 2
\* the clock runs from 0 to MaxTime
MaxTime == 2

Amounts == 1..MaxAmount

\* the slots for calls of requestCard
Calls == {1, 2}
\* the agent awaits each call of requestCard before the next one
OneAtATime == {1}

Cards == {"card1", "card2"}
Keys == {"k1"}
NoCard == "none"
NoKey == "none"

\* a key other than the one Vault.init generated: the key source was changed
\* outside the program
OtherKeys == {"k2"}

\* JSON.stringify(card) and JSON.parse of the plaintext, on small codes
stringify(card) == CASE card = "card1" -> 1 [] card = "card2" -> 2 [] OTHER -> 0
parse(plaintext) ==
  CASE plaintext = 1 -> "card1" [] plaintext = 2 -> "card2" [] OTHER -> NoCard

\* the key stream of the cipher, and the GCM tag, which binds key and ciphertext
keyStream(key) == CASE key = "k1" -> 1 [] key = "k2" -> 2 [] OTHER -> 0
tagOf(key, data) == [key |-> key, data |-> data]

EncryptedPayload(authTag, data) == [authTag |-> authTag, data |-> data]

\* mutant: the cipher is not the inverse of the decipher
encryptShifted(plaintext, key) ==
  LET data == (plaintext + keyStream(key) + 1) % 4
  IN  EncryptedPayload(tagOf(key, data), data)

\* Vault.encrypt
encrypt(plaintext, key) ==
  LET data == (plaintext + keyStream(key)) % 4
  IN  EncryptedPayload(tagOf(key, data), data)

\* mutant: the plaintext is returned without the tag being verified
decryptUnverified(payload, key) ==
  [ok |-> TRUE, plaintext |-> (payload.data - keyStream(key)) % 4]

\* Vault.decrypt: decipher.final() throws unless the tag verifies under the key
decrypt(payload, key) ==
  IF payload.authTag = tagOf(key, payload.data)
  THEN [ok |-> TRUE, plaintext |-> (payload.data - keyStream(key)) % 4]
  ELSE [ok |-> FALSE, plaintext |-> 0]

\* vault.enc: the payload, and its history (not read by the program): the card
\* given to the last storeCard, the key it was sealed with, and whether the
\* bytes were altered since
VaultFile(payload, stored, sealedBy, altered) ==
  [ authTag |-> payload.authTag, data |-> payload.data,
    stored |-> stored, sealedBy |-> sealedBy, altered |-> altered ]
NoFile == VaultFile(EncryptedPayload(tagOf(NoKey, 0), 0), NoCard, NoKey, FALSE)

NoRequest == [amount |-> 0, merchant |-> <<>>, description |-> <<>>]

\* the requests agents send to the gatekeeper
GateRequests == [amount : {1, 2, 3}, merchant : {<<"a">>}, description : {<<>>}]

\* autoApproveUnder < requireApproval range <= blockAbove, with limits the
\* requests can reach within a day and within a month
GatePolicy ==
  [ autoApproveUnder |-> 1, requireApprovalAbove |-> 1, blockAbove |-> 2,
    dailyLimit |-> 3, monthlyLimit |-> 4,
    blockedKeywords |-> <<>>, allowedMerchants |-> <<>>, blockedMerchants |-> <<>> ]

\* config.approval: the method, whether its URL or token is configured, and
\* whether the plugin installed the WhatsApp onApproval callback
ApprovalConfigs ==
  [method : {"terminal"}, configured : {TRUE}, onApproval : {FALSE}]
  \cup [method : {"webhook", "slack", "telegram"}, configured : BOOLEAN, onApproval : {FALSE}]
  \cup [method : {"callback"}, configured : {TRUE}, onApproval : BOOLEAN]
  \cup [method : {"whatsapp", "sms"}, configured : {TRUE}, onApproval : {FALSE}]

\* mutant: the entry records every request as approved
TransactionLogApproved(id, t, payment, policyResult, approved, approvedBy) ==
  [ id |-> id, timestamp |-> t, payment |-> payment, policyResult |-> policyResult,
    approved |-> TRUE, approvedBy |-> approvedBy ]

TransactionLog(id, t, payment, policyResult, approved, approvedBy) ==
  [ id |-> id, timestamp |-> t, payment |-> payment, policyResult |-> policyResult,
    approved |-> approved, approvedBy |-> approvedBy ]

NoEntry == TransactionLog(0, 0, NoRequest, NoMatch, FALSE, "auto")

\* what requestCard gave its caller
Result(status, card, reason) == [status |-> status, card |-> card, reason |-> reason]
NoResult == Result("none", NoCard, Reason("none", 0, 0, 0, <<>>))
\* mutant: the approval is returned without the card that was read
ApprovedBlank(card) == Result("approved", NoCard, Reason("none", 0, 0, 0, <<>>))

Approved(card) == Result("approved", card, Reason("none", 0, 0, 0, <<>>))
Denied(reason) == Result("denied", NoCard, reason)
Threw == Result("threw", NoCard, Reason("none", 0, 0, 0, <<>>))

NoCardStored == Reason("noCardStored", 0, 0, 0, <<>>)
DeniedByUser == Reason("deniedByUser", 0, 0, 0, <<>>)

\* config.vault.keyStorage
KeyBackends == {"keychain", "file", "env"}

\* where the vault's key lives: the configured backend, the vault object's
\* keyStorage field, whether keytar can be reached, the keychain entry, the
\* .key file, CLAWPAYER_KEY, and the key the env backend last printed; and the
\* history (not read by the program): the keys randomBytes produced and the key
\* in place when the last init returned
KeyStore(configured, reachable) ==
  [ configured |-> configured, keyStorage |-> configured, reachable |-> reachable,
    keychain |-> NoKey, keyFile |-> NoKey, env |-> NoKey, printed |-> NoKey,
    generated |-> {}, committed |-> NoKey ]

\* Vault.getKeyFromKeychain: the entry, or on any keytar error the .key file,
\* with keyStorage set to "file"
getKeyFromKeychain(ks) ==
  IF ks.reachable THEN [key |-> ks.keychain, keyStorage |-> "keychain"]
  ELSE [key |-> ks.keyFile, keyStorage |-> "file"]

\* Vault.getKey: the key the backend in keyStorage yields, and keyStorage after
\* the call
getKey(ks) ==
  CASE ks.keyStorage = "keychain" -> getKeyFromKeychain(ks)
    [] ks.keyStorage = "file" -> [key |-> ks.keyFile, keyStorage |-> "file"]
    [] OTHER -> [key |-> ks.env, keyStorage |-> "env"]

\* the vault object after a call of getKey
afterGetKey(ks) == [ks EXCEPT !.keyStorage = getKey(ks).keyStorage]

\* Vault.storeKey: the keychain entry, or on a keytar error the .key file with
\* keyStorage set to "file"; the .key file; the env backend only prints the key
storeKey(ks, key) ==
  CASE ks.keyStorage = "keychain" ->
         IF ks.reachable THEN [ks EXCEPT !.keychain = key]
         ELSE [ks EXCEPT !.keyStorage = "file", !.keyFile = key]
    [] ks.keyStorage = "file" -> [ks EXCEPT !.keyFile = key]
    [] OTHER -> [ks EXCEPT !.printed = key]

\* randomBytes(KEY_LENGTH): a key that was not produced before; at most two keys
\* are produced
randomBytes(ks) == IF ks.generated = {} THEN Keys ELSE OtherKeys \ ks.generated

\* the key source in use is given another content outside the program
setKeySource(ks, key) ==
  CASE getKey(ks).keyStorage = "keychain" -> [ks EXCEPT !.keychain = key]
    [] getKey(ks).keyStorage = "file" -> [ks EXCEPT !.keyFile = key]
    [] OTHER -> [ks EXCEPT !.env = key]

\* what the embedding code holds: the object getPolicy returned (none before the
\* first call), the list fields of it that are still the engine's own arrays,
\* what hasCard returned, and the ids in the plugin's pendingApprovals map
NoPolicy ==
  [ autoApproveUnder |-> 0, requireApprovalAbove |-> 0, blockAbove |-> 0,
    dailyLimit |-> 0, monthlyLimit |-> 0,
    blockedKeywords |-> <<>>, allowedMerchants |-> <<>>, blockedMerchants |-> <<>> ]
\* pollCallbackQuery of one request: where its loop stands, its local offset,
\* the value it returns; pressed is the button the human pressed on its prompt
IdlePoller == [pc |-> "idle", offset |-> 0, result |-> "none", pressed |-> "none"]

\* the bot at Telegram: the callback queries not yet confirmed, the next
\* update_id, and the poller of each request's telegramApproval
NoBot == [updates |-> <<>>, nextId |-> 1, poller |-> [c \in Calls |-> IdlePoller]]

NoCaller ==
  [ held |-> FALSE, policy |-> NoPolicy, shared |-> {}, hasCard |-> "none",
    pendingApprovals |-> {} ]

VARIABLES evIn, evOut, now, policies, approval, logging, vaultKey, vaultFile, logFile,
          started, call, keyStore, caller, bot

evalVars == <<evIn, evOut>>

gateVars == <<now, policies, approval, logging, vaultKey, vaultFile, logFile, started, call,
             keyStore, caller, bot>>

vars == <<evIn, evOut, now, policies, approval, logging, vaultKey, vaultFile, logFile,
          started, call, keyStore, caller, bot>>

\* no approval request was handed to a channel
NoMessage == [payment |-> NoRequest, action |-> "none", reason |-> Reason("none", 0, 0, 0, <<>>)]

\* a call of requestCard that has not started
IdleCall ==
  [ pc |-> "idle", rid |-> 0, request |-> NoRequest, policyResult |-> NoMatch,
    handler |-> "none", approvedBy |-> "auto", card |-> NoCard,
    entry |-> NoEntry, logs |-> <<>>, pending |-> NoResult, result |-> NoResult,
    reveals |-> 0, error |-> "none",
    deadlineSet |-> FALSE, expired |-> FALSE, timedOut |-> FALSE,
    settled |-> FALSE, value |-> FALSE, timerArmed |-> FALSE,
    questionPending |-> FALSE, firstSignal |-> "none", answered |-> "none",
    reply |-> <<>>, netError |-> FALSE, pressed |-> "none", notice |-> "none", nextNotice |-> "none",
    message |-> NoMessage ]

Init ==
  /\ evIn = [ request |-> NoRequest, policy |-> GatePolicy, logs |-> <<>>, now |-> 0 ]
  /\ evOut = NoMatch
  /\ now = 0
  /\ policies = GatePolicy
  /\ approval \in ApprovalConfigs
  /\ logging \in BOOLEAN
  /\ vaultKey = NoKey
  /\ vaultFile = NoFile
  /\ logFile = <<>>
  /\ started = 0
  /\ caller = NoCaller
  /\ bot = NoBot
  /\ call = [c \in Calls |-> IdleCall]
  /\ keyStore = KeyStore("keychain", TRUE)

(***************************************************************************)
(* The vault.                                                              *)
(***************************************************************************)
\* Vault.init: a key is generated and stored only when getKey finds none
VaultInit ==
  /\ LET g == getKey(keyStore)
         ks == afterGetKey(keyStore)
     IN  IF g.key # NoKey
         THEN keyStore' = [ks EXCEPT !.committed = g.key]
         ELSE \E key \in randomBytes(ks) :
                keyStore' = [storeKey(ks, key) EXCEPT !.generated = @ \cup {key},
                                                      !.committed = key]
  /\ vaultKey' = getKey(keyStore').key
  /\ UNCHANGED <<evIn, evOut, bot, caller, now, policies, approval, logging, vaultFile, logFile,
                 started, call>>

\* Vault.storeCard: throws without a key, else writes encrypt(card, key)
StoreCard(card) ==
  /\ vaultKey # NoKey
  /\ vaultFile' = VaultFile(encrypt(stringify(card), vaultKey), card, vaultKey, FALSE)
  /\ keyStore' = afterGetKey(keyStore)
  /\ UNCHANGED <<evIn, evOut, bot, caller, now, policies, approval, logging, vaultKey, logFile,
                 started, call>>

\* Vault.storeCard stopped inside writeFile (the process is killed, or the write
\* fails after the open): vault.enc was opened with truncation and holds a cut
\* text, which JSON.parse in getCard rejects
StoreCardInterrupted(card) ==
  /\ vaultKey # NoKey
  /\ vaultFile' = VaultFile(EncryptedPayload(tagOf("cut", 0), 0), card, vaultKey, TRUE)
  /\ keyStore' = afterGetKey(keyStore)
  /\ UNCHANGED <<evIn, evOut, bot, caller, now, policies, approval, logging, vaultKey, logFile,
                 started, call>>

\* the bytes of vault.enc are altered outside the program: the ciphertext or
\* the tag
TamperVault ==
  /\ vaultFile # NoFile
  /\ ~vaultFile.altered
  /\ \/ vaultFile' = [vaultFile EXCEPT !.altered = TRUE, !.data = (@ + 1) % 4]
     \/ vaultFile' = [vaultFile EXCEPT !.altered = TRUE, !.authTag.key = "altered"]
  /\ UNCHANGED <<evIn, evOut, bot, caller, keyStore, now, policies, approval, logging, vaultKey, logFile,
                 started, call>>

\* mutant: the vault always reports a stored card
hasCardAlways(file) == TRUE

\* Vault.hasCard: existsSync(VAULT_FILE)
hasCard(file) == file # NoFile

\* the key source no longer yields a key (key file removed, CLAWPAYER_KEY unset,
\* keychain entry deleted)
LoseKey ==
  /\ vaultKey # NoKey
  /\ keyStore' = setKeySource(keyStore, NoKey)
  /\ vaultKey' = getKey(keyStore').key
  /\ UNCHANGED <<evIn, evOut, bot, caller, now, policies, approval, logging, vaultFile, logFile,
                 started, call>>

\* the key source yields another key (CLAWPAYER_KEY changed, key file replaced)
ReplaceKey ==
  /\ vaultKey # NoKey
  /\ \E key \in (Keys \cup OtherKeys) \ {vaultKey} : keyStore' = setKeySource(keyStore, key)
  /\ vaultKey' = getKey(keyStore').key
  /\ UNCHANGED <<evIn, evOut, bot, caller, now, policies, approval, logging, vaultFile, logFile,
                 started, call>>

\* Vault.deleteCard: vault.enc is overwritten and unlinked
DeleteCard ==
  /\ vaultFile # NoFile
  /\ vaultFile' = NoFile
  /\ UNCHANGED <<evIn, evOut, bot, caller, keyStore, now, policies, approval, logging, vaultKey, logFile,
                 started, call>>

\* mutant: a failed read of the vault is passed on as a result without a card
FailureSwallowed(error) == [ok |-> TRUE, card |-> NoCard, error |-> error]

\* what a failed Vault.getCard throws
Failure(error) == [ok |-> FALSE, card |-> NoCard, error |-> error]

\* Vault.getCard: throws "Vault not initialized" without a key, "No card stored"
\* without vault.enc, the error of decipher.final() when the tag does not
\* verify; else the parsed plaintext
getCard(key, file) ==
  IF key = NoKey THEN Failure("NotInitialized")
  ELSE IF file = NoFile THEN Failure("NoSecretStored")
  ELSE LET d == decrypt(EncryptedPayload(file.authTag, file.data), key)
       IN  IF ~d.ok THEN Failure("DecryptionFailure")
           ELSE [ok |-> TRUE, card |-> parse(d.plaintext), error |-> "none"]

(***************************************************************************)
(* The transaction log.  writeFile opens transactions.json with truncation *)
(* and then writes the whole array; between the two the file holds a cut   *)
(* text.  A missing file and a text JSON.parse rejects read as the empty   *)
(* array.                                                                  *)
(***************************************************************************)
\* transactions.json while a writeFile is under way, as one unparsable item;
\* before (not read by the program) is the array the file held when whole
Truncated(before) ==
  << [ id |-> -1, timestamp |-> 0, payment |-> NoRequest, policyResult |-> NoMatch,
       approved |-> FALSE, approvedBy |-> "auto", before |-> before ] >>

unparsable(file) == Len(file) = 1 /\ file[1].id = -1

\* the array last written whole to transactions.json
Ledger(file) == IF unparsable(file) THEN file[1].before ELSE file

\* PolicyEngine.getTransactionLogs
getTransactionLogs(file) == IF unparsable(file) THEN <<>> ELSE file

(***************************************************************************)
(* ClawPay.requestCard.                                                    *)
(***************************************************************************)
\* a return (or throw) of requestCard
finish(s, res) == [s EXCEPT !.pc = "done", !.result = res]

\* mutant: every entry is recorded as decided by the policy
beginLogAsAuto(s, approved, approvedBy, res) ==
  IF ~logging THEN finish(s, res)
  ELSE [s EXCEPT !.pc = "logRead", !.pending = res,
                 !.entry = TransactionLog(s.rid, now, s.request, s.policyResult,
                                          approved, "auto")]

\* ClawPay.logTransaction up to its first await: nothing when logging is
\* disabled, else the entry is built with Date.now() and the log file is read
beginLog(s, approved, approvedBy, res) ==
  IF ~logging THEN finish(s, res)
  ELSE [s EXCEPT !.pc = "logRead", !.pending = res,
                 !.entry = TransactionLog(s.rid, now, s.request, s.policyResult,
                                          approved, approvedBy)]

\* mutant: a policy denial is sent to the approval handler
decideAskOnDeny(s, pr) ==
  LET t == [s EXCEPT !.policyResult = pr]
  IN  IF pr.action = "auto_approve"
      THEN [t EXCEPT !.pc = "getCard", !.approvedBy = "auto"]
      ELSE [t EXCEPT !.pc = "approval"]

\* requestCard after evaluate returned: the deny, auto_approve and
\* require_approval branches
decide(s, pr) ==
  LET t == [s EXCEPT !.policyResult = pr]
  IN  IF pr.action = "deny" THEN beginLog(t, FALSE, "auto", Denied(pr.reason))
      ELSE IF pr.action = "auto_approve"
           THEN [t EXCEPT !.pc = "getCard", !.approvedBy = "auto"]
      ELSE [t EXCEPT !.pc = "approval"]

\* requestCard is called: the hasCard check
RequestCard(c, request) ==
  /\ call[c].pc = "idle"
  /\ started < MaxRequests
  /\ started' = started + 1
  /\ LET s == [IdleCall EXCEPT !.rid = started + 1, !.request = request]
     IN  call' = [call EXCEPT ![c] =
                    IF ~hasCard(vaultFile) THEN finish(s, Denied(NoCardStored))
                    ELSE [s EXCEPT !.pc = "evaluate"]]
  /\ UNCHANGED <<evIn, evOut, bot, caller, keyStore, now, policies, approval, logging, vaultKey, vaultFile,
                 logFile>>

\* evaluate until getTodaySpending has read the log; without a monthly limit
\* evaluate returns here
EvaluateDaily(c) ==
  /\ call[c].pc = "evaluate"
  /\ LET s == call[c]
         r == evaluateToDaily(s.request, policies, getTransactionLogs(logFile), now)
     IN  call' = [call EXCEPT ![c] =
                    IF r # NoMatch THEN decide(s, r)
                    ELSE IF monthlyLimitSet(policies) THEN [s EXCEPT !.pc = "evalMonth"]
                    ELSE decide(s, evaluateFromMonthly(s.request, policies, <<>>, now))]
  /\ UNCHANGED <<evIn, evOut, bot, caller, keyStore, now, policies, approval, logging, vaultKey, vaultFile,
                 logFile, started>>

\* evaluate after getMonthSpending has read the log again
EvaluateMonthly(c) ==
  /\ call[c].pc = "evalMonth"
  /\ LET s == call[c]
     IN  call' = [call EXCEPT ![c] =
                    decide(s, evaluateFromMonthly(s.request, policies,
                                                  getTransactionLogs(logFile), now))]
  /\ UNCHANGED <<evIn, evOut, bot, caller, keyStore, now, policies, approval, logging, vaultKey, vaultFile,
                 logFile, started>>

\* const card = await this.vault.getCard(), then logTransaction(..., true, ...)
GetCard(c) ==
  /\ call[c].pc = "getCard"
  /\ LET s == call[c]
         g == getCard(vaultKey, vaultFile)
     IN  call' = [call EXCEPT ![c] =
                    IF ~g.ok THEN finish([s EXCEPT !.error = g.error], Threw)
                    ELSE beginLog([s EXCEPT !.card = g.card, !.reveals = @ + 1],
                                  TRUE, s.approvedBy, Approved(g.card))]
  /\ keyStore' = afterGetKey(keyStore)
  /\ UNCHANGED <<evIn, evOut, bot, caller, now, policies, approval, logging, vaultKey, vaultFile,
                 logFile, started>>

\* PolicyEngine.logTransaction: const logs = await this.getTransactionLogs()
LogRead(c) ==
  /\ call[c].pc = "logRead"
  /\ call' = [call EXCEPT ![c].logs = getTransactionLogs(logFile), ![c].pc = "logWrite"]
  /\ UNCHANGED <<evIn, evOut, bot, caller, keyStore, now, policies, approval, logging, vaultKey, vaultFile,
                 logFile, started>>

\* mutant: logTransaction returns without writing the file
LogWriteSkipped(c) ==
  /\ call[c].pc = "logWrite"
  /\ call' = [call EXCEPT ![c] = finish(call[c], call[c].pending)]
  /\ UNCHANGED <<evIn, evOut, bot, caller, keyStore, now, policies, approval, logging, vaultKey,
                 vaultFile, logFile, started>>

\* logs.push(log); writeFile(LOG_FILE, ...) opens the file, truncating it
LogWrite(c) ==
  /\ call[c].pc = "logWrite"
  /\ logFile' = Truncated(Ledger(logFile))
  /\ call' = [call EXCEPT ![c].pc = "logFlush"]
  /\ UNCHANGED <<evIn, evOut, bot, caller, keyStore, now, policies, approval, logging, vaultKey,
                 vaultFile, started>>

\* writeFile has written the array and resolves; requestCard then returns
LogFlush(c) ==
  /\ call[c].pc = "logFlush"
  /\ logFile' = Append(call[c].logs, call[c].entry)
  /\ call' = [call EXCEPT ![c] = finish(call[c], call[c].pending)]
  /\ UNCHANGED <<evIn, evOut, bot, caller, keyStore, now, policies, approval, logging, vaultKey,
                 vaultFile, started>>

\* the caller has taken the result; the slot is free for another call
Return(c) ==
  /\ call[c].pc = "done"
  /\ call' = [call EXCEPT ![c] = IdleCall]
  /\ UNCHANGED <<evIn, evOut, bot, caller, keyStore, now, policies, approval, logging, vaultKey, vaultFile,
                 logFile, started>>

\* the clock advances
Tick ==
  /\ now < MaxTime
  /\ now' = now + 1
  /\ UNCHANGED <<evIn, evOut, bot, caller, keyStore, policies, approval, logging, vaultKey, vaultFile,
                 logFile, started, call>>

(***************************************************************************)
(* The approval channels.                                                  *)
(***************************************************************************)
\* mutant: whatever the handler computed, it returns an approval
handlerReturnsTrue(s, v) == [s EXCEPT !.handler = "true", !.pc = "resume"]

\* the approval handler returned v to requestCard
handlerReturn(s, v) ==
  [s EXCEPT !.handler = IF v THEN "true" ELSE "false", !.pc = "resume"]

\* mutant: a handler that should throw shows the terminal prompt instead
fallThroughToTerminal(s) ==
  [s EXCEPT !.pc = "term_wait", !.timerArmed = TRUE, !.questionPending = TRUE,
            !.deadlineSet = TRUE]

\* the approval handler threw: requestCard has no catch and rejects
handlerThrow(s) == finish([s EXCEPT !.handler = "threw"], Threw)

\* String.prototype.trim
RECURSIVE trimStart(_)
trimStart(str) ==
  IF str # <<>> /\ Head(str) = " " THEN trimStart(Tail(str)) ELSE str

RECURSIVE trimEnd(_)
trimEnd(str) ==
  IF str # <<>> /\ str[Len(str)] = " " THEN trimEnd(SubSeq(str, 1, Len(str) - 1))
  ELSE str

trim(str) == trimEnd(trimStart(str))

\* what the human types or sends
Replies ==
  { <<"y", "e", "s">>, <<" ", "Y", "e", "s", " ">>, <<"y">>, <<"n", "o">>,
    <<"o", "k">>, <<>> }

\* the approved / denied word lists of whatsappApproval
whatsappYes ==
  { <<"y", "e", "s">>, <<"a", "p", "p", "r", "o", "v", "e">>, <<"y">>,
    <<"a", "p", "p", "r", "o", "v", "e", "d">> }
whatsappNo ==
  { <<"n", "o">>, <<"d", "e", "n", "y">>, <<"n">>, <<"d", "e", "n", "i", "e", "d">>,
    <<"r", "e", "j", "e", "c", "t">> }

\* terminalApproval: answer.trim().toLowerCase() === "yes"
terminalApproved(answer) == toLowerCase(trim(answer)) = <<"y", "e", "s">>

\* mutant: the approval request carries the stored card in its description
ApprovalMessageWithCard(s) ==
  [ payment |-> [s.request EXCEPT !.description = << vaultFile.stored >>],
    action |-> s.policyResult.action, reason |-> s.policyResult.reason ]

\* what every channel is given to show: the payment's amount, merchant and
\* description and the policy's action and reason (terminal box, webhook
\* payload, Telegram and WhatsApp text)
ApprovalMessage(s) ==
  [ payment |-> s.request, action |-> s.policyResult.action,
    reason |-> s.policyResult.reason ]

\* requestCard asks for approval: this.onApproval if set, else requestApproval's
\* switch on config.method
RequestApproval(c) ==
  /\ call[c].pc = "approval"
  /\ LET s == call[c]
     IN  call' = [call EXCEPT ![c] =
           IF approval.onApproval THEN [s EXCEPT !.pc = "wa_send", !.message = ApprovalMessage(s)]
           ELSE IF approval.method = "terminal"
                THEN [s EXCEPT !.pc = "term_wait", !.timerArmed = TRUE,
                               !.questionPending = TRUE, !.deadlineSet = TRUE,
                               !.message = ApprovalMessage(s)]
           ELSE IF approval.method \in {"webhook", "slack"}
                THEN IF approval.configured THEN [s EXCEPT !.pc = "wh_post",
                                                     !.message = ApprovalMessage(s)]
                     ELSE handlerThrow(s)
           ELSE IF approval.method = "telegram"
                THEN IF approval.configured THEN [s EXCEPT !.pc = "tg_send",
                                                     !.message = ApprovalMessage(s)]
                     ELSE handlerThrow(s)
           ELSE IF approval.method \in {"whatsapp", "callback"} THEN handlerThrow(s)
           ELSE handlerReturn(s, FALSE)]
  /\ UNCHANGED <<evIn, evOut, bot, caller, keyStore, now, policies, approval, logging, vaultKey, vaultFile,
                 logFile, started>>

\* the call is inside the approval wait started by requestCard
InApprovalWait(c) ==
  call[c].pc \in { "approval", "term_wait", "wh_post", "wh_poll", "wh_fetch", "wh_sleep",
                   "tg_send", "tg_loop", "tg_updates", "tg_ack", "tg_timeout",
                   "wa_send", "wa_wait", "wa_notify" }

\* mutant: whatever the handler returned counts as an approval
humanApprovedAlways(s) == TRUE

\* const approved = await ...: the value the approval handler returned
humanApproved(s) == s.handler = "true"

\* requestCard after the approval handler returned: if (!approved) log the
\* denial and return it, else get the card
AfterApproval(c) ==
  /\ call[c].pc = "resume"
  /\ LET s == call[c]
     IN  call' = [call EXCEPT ![c] =
           IF ~humanApproved(s)
           THEN beginLog(s, FALSE, "human", Denied(DeniedByUser))
           ELSE [s EXCEPT !.pc = "getCard", !.approvedBy = "human"]]
  /\ UNCHANGED <<evIn, evOut, bot, caller, keyStore, now, policies, approval, logging, vaultKey, vaultFile,
                 logFile, started>>

\* the deadline of a wait passes (the timer becomes due, Date.now() reaches
\* the deadline, waitForReply gives up)
Expire(c) ==
  /\ call[c].deadlineSet
  /\ ~call[c].expired
  /\ call[c].pc \in {"term_wait", "wh_poll", "wh_fetch", "wh_sleep", "tg_loop",
                     "tg_updates", "wa_wait"}
  /\ call[c].pc = "term_wait" => call[c].timerArmed
  /\ call' = [call EXCEPT ![c].expired = TRUE]
  /\ UNCHANGED <<evIn, evOut, bot, caller, keyStore, now, policies, approval, logging, vaultKey, vaultFile,
                 logFile, started>>

\* mutant: a later resolve replaces the value of the promise
promiseResolveAgain(s, v) == [s EXCEPT !.settled = TRUE, !.value = v]

\* resolve of the Promise terminalApproval returns: a settled promise keeps
\* its value
promiseResolve(s, v) ==
  IF s.settled THEN s ELSE [s EXCEPT !.settled = TRUE, !.value = v]

\* terminalApproval: the setTimeout callback
TerminalTimeout(c) ==
  /\ call[c].timerArmed
  /\ call[c].expired
  /\ LET s == [call[c] EXCEPT !.timerArmed = FALSE, !.timedOut = TRUE,
                 !.firstSignal = IF @ = "none" THEN "timeout" ELSE @]
     IN  call' = [call EXCEPT ![c] = promiseResolve(s, FALSE)]
  /\ UNCHANGED <<evIn, evOut, bot, caller, keyStore, now, policies, approval, logging, vaultKey, vaultFile,
                 logFile, started>>

\* terminalApproval: the rl.question callback, on the line the human typed.
\* (readline does not call it after rl.close(); the model does not rely on that.)
TerminalAnswer(c, answer) ==
  /\ call[c].questionPending
  /\ LET s == [call[c] EXCEPT !.questionPending = FALSE, !.timerArmed = FALSE,
                 !.firstSignal = IF @ = "none" THEN "reply" ELSE @,
                 !.answered = IF terminalApproved(answer) THEN "yes" ELSE "other",
                 !.reply = answer]
     IN  call' = [call EXCEPT ![c] = promiseResolve(s, terminalApproved(answer))]
  /\ UNCHANGED <<evIn, evOut, bot, caller, keyStore, now, policies, approval, logging, vaultKey, vaultFile,
                 logFile, started>>

\* the await on terminalApproval's promise resumes once it is settled
TerminalResolved(c) ==
  /\ call[c].pc = "term_wait"
  /\ call[c].settled
  /\ call' = [call EXCEPT ![c] = handlerReturn(call[c], call[c].value)]
  /\ UNCHANGED <<evIn, evOut, bot, caller, keyStore, now, policies, approval, logging, vaultKey, vaultFile,
                 logFile, started>>

\* a call of fetch or of the messaging API failed with a network error
netFailed(s) == [s EXCEPT !.netError = TRUE]

\* webhookApproval: the outcome of the POST -- a network error or an invalid
\* body (caught), a non-2xx status, {approved}, {pollUrl}, or another body
WebhookResponses == {"error", "notOk", "approved", "denied", "pollUrl", "other"}

WebhookResponse(c, resp) ==
  /\ call[c].pc = "wh_post"
  /\ LET s == call[c]
     IN  call' = [call EXCEPT ![c] =
           IF resp = "approved" THEN handlerReturn(s, TRUE)
           ELSE IF resp = "pollUrl" THEN [s EXCEPT !.pc = "wh_poll", !.deadlineSet = TRUE]
           ELSE IF resp = "error" THEN handlerReturn(netFailed(s), FALSE)
           ELSE handlerReturn(s, FALSE)]
  /\ UNCHANGED <<evIn, evOut, bot, caller, keyStore, now, policies, approval, logging, vaultKey, vaultFile,
                 logFile, started>>

\* pollForApproval: while (Date.now() < deadline) fetch(pollUrl), else deny
PollLoop(c) ==
  /\ call[c].pc = "wh_poll"
  /\ LET s == call[c]
     IN  call' = [call EXCEPT ![c] =
           IF ~s.expired THEN [s EXCEPT !.pc = "wh_fetch"]
           ELSE handlerReturn([s EXCEPT !.timedOut = TRUE], FALSE)]
  /\ UNCHANGED <<evIn, evOut, bot, caller, keyStore, now, policies, approval, logging, vaultKey, vaultFile,
                 logFile, started>>

PollResponses == {"error", "notOk", "approved", "denied", "pending"}

\* pollForApproval: the outcome of one fetch(pollUrl)
PollResponse(c, resp) ==
  /\ call[c].pc = "wh_fetch"
  /\ LET s == call[c]
     IN  call' = [call EXCEPT ![c] =
           IF resp = "approved" THEN handlerReturn(s, TRUE)
           ELSE IF resp = "denied" THEN handlerReturn(s, FALSE)
           ELSE IF resp = "error" THEN [netFailed(s) EXCEPT !.pc = "wh_sleep"]
           ELSE [s EXCEPT !.pc = "wh_sleep"]]
  /\ UNCHANGED <<evIn, evOut, bot, caller, keyStore, now, policies, approval, logging, vaultKey, vaultFile,
                 logFile, started>>

\* pollForApproval: the setTimeout(r, intervalMs) between two polls
PollSleep(c) ==
  /\ call[c].pc = "wh_sleep"
  /\ call' = [call EXCEPT ![c].pc = "wh_poll"]
  /\ UNCHANGED <<evIn, evOut, bot, caller, keyStore, now, policies, approval, logging, vaultKey, vaultFile,
                 logFile, started>>

\* telegramApproval: bot.api.sendMessage returns or throws
TelegramSent(c, ok) ==
  /\ call[c].pc = "tg_send"
  /\ LET s == call[c]
     IN  call' = [call EXCEPT ![c] =
           IF ok THEN [s EXCEPT !.pc = "tg_loop", !.deadlineSet = TRUE,
                                !.notice = "prompt"]
           ELSE handlerThrow(netFailed(s))]
  /\ UNCHANGED <<evIn, evOut, bot, caller, keyStore, now, policies, approval, logging, vaultKey, vaultFile,
                 logFile, started>>

\* the human presses a button of the prompt
TelegramPress(c, button) ==
  /\ call[c].notice = "prompt"
  /\ call[c].pc \in {"tg_loop", "tg_updates", "tg_timeout"}
  /\ call[c].pressed = "none"
  /\ call' = [call EXCEPT ![c].pressed = button]
  /\ UNCHANGED <<evIn, evOut, bot, caller, keyStore, now, policies, approval, logging, vaultKey, vaultFile,
                 logFile, started>>

\* pollCallbackQuery: while (Date.now() < deadline) getUpdates, else edit the
\* message to the timeout text
TelegramLoop(c) ==
  /\ call[c].pc = "tg_loop"
  /\ LET s == call[c]
     IN  call' = [call EXCEPT ![c] =
           IF ~s.expired THEN [s EXCEPT !.pc = "tg_updates"]
           ELSE [s EXCEPT !.pc = "tg_timeout", !.timedOut = TRUE]]
  /\ UNCHANGED <<evIn, evOut, bot, caller, keyStore, now, policies, approval, logging, vaultKey, vaultFile,
                 logFile, started>>

TelegramUpdates == {"error", "empty", "press"}

\* pollCallbackQuery: getUpdates throws, returns no callback of this request,
\* or returns the button press
TelegramGetUpdates(c, resp) ==
  /\ call[c].pc = "tg_updates"
  /\ resp = "press" => call[c].pressed # "none"
  /\ LET s == call[c]
     IN  call' = [call EXCEPT ![c] =
           IF resp = "error" THEN handlerThrow(netFailed(s))
           ELSE IF resp = "empty" THEN [s EXCEPT !.pc = "tg_loop"]
           ELSE [s EXCEPT !.pc = "tg_ack", !.value = (s.pressed = "approve"),
                          !.nextNotice = IF s.pressed = "approve" THEN "approved"
                                         ELSE "denied"]]
  /\ UNCHANGED <<evIn, evOut, bot, caller, keyStore, now, policies, approval, logging, vaultKey, vaultFile,
                 logFile, started>>

\* pollCallbackQuery: answerCallbackQuery and editMessageText return or throw
TelegramAck(c, ok) ==
  /\ call[c].pc = "tg_ack"
  /\ LET s == call[c]
     IN  call' = [call EXCEPT ![c] =
           IF ok THEN handlerReturn([s EXCEPT !.notice = s.nextNotice], s.value)
           ELSE handlerThrow(netFailed(s))]
  /\ UNCHANGED <<evIn, evOut, bot, caller, keyStore, now, policies, approval, logging, vaultKey, vaultFile,
                 logFile, started>>

\* pollCallbackQuery: editMessageText(timeout text) returns or throws
TelegramExpiry(c, ok) ==
  /\ call[c].pc = "tg_timeout"
  /\ LET s == call[c]
     IN  call' = [call EXCEPT ![c] =
           IF ok THEN handlerReturn([s EXCEPT !.notice = "expired"], FALSE)
           ELSE handlerThrow(netFailed(s))]
  /\ UNCHANGED <<evIn, evOut, bot, caller, keyStore, now, policies, approval, logging, vaultKey, vaultFile,
                 logFile, started>>

\* whatsappApproval: sendMessage(text) returns or throws
WhatsappSent(c, ok) ==
  /\ call[c].pc = "wa_send"
  /\ LET s == call[c]
     IN  call' = [call EXCEPT ![c] =
           IF ok THEN [s EXCEPT !.pc = "wa_wait", !.deadlineSet = TRUE,
                                !.notice = "prompt"]
           ELSE handlerThrow(netFailed(s))]
  /\ UNCHANGED <<evIn, evOut, bot, caller, keyStore, now, policies, approval, logging, vaultKey, vaultFile,
                 logFile, started>>

\* whatsappApproval after waitForReply returned reply: the follow-up message to
\* send and the value to return
whatsappDecision(s, reply) ==
  LET normalized == toLowerCase(trim(reply))
  IN  IF reply = <<>>
      THEN [s EXCEPT !.pc = "wa_notify", !.timedOut = TRUE, !.value = FALSE,
                     !.nextNotice = "expired"]
      ELSE IF normalized \in whatsappYes
      THEN [s EXCEPT !.pc = "wa_notify", !.value = TRUE, !.nextNotice = "approved"]
      ELSE IF normalized \in whatsappNo
      THEN [s EXCEPT !.pc = "wa_notify", !.value = FALSE, !.nextNotice = "denied"]
      ELSE [s EXCEPT !.pc = "wa_notify", !.value = FALSE, !.nextNotice = "unrecognized"]

\* waitForReply returns the human's reply
WhatsappReply(c, reply) ==
  /\ call[c].pc = "wa_wait"
  /\ call' = [call EXCEPT ![c] =
                whatsappDecision([call[c] EXCEPT !.answered = "other", !.reply = reply],
                                 reply)]
  /\ UNCHANGED <<evIn, evOut, bot, caller, keyStore, now, policies, approval, logging, vaultKey, vaultFile,
                 logFile, started>>

\* waitForReply returns null after timeoutMs, or throws
WhatsappNoReply(c, ok) ==
  /\ call[c].pc = "wa_wait"
  /\ ok => call[c].expired
  /\ call' = [call EXCEPT ![c] =
                IF ok THEN whatsappDecision(call[c], <<>>) ELSE handlerThrow(netFailed(call[c]))]
  /\ UNCHANGED <<evIn, evOut, bot, caller, keyStore, now, policies, approval, logging, vaultKey, vaultFile,
                 logFile, started>>

\* whatsappApproval: the follow-up sendMessage returns or throws
WhatsappNotified(c, ok) ==
  /\ call[c].pc = "wa_notify"
  /\ LET s == call[c]
     IN  call' = [call EXCEPT ![c] =
           IF ok THEN handlerReturn([s EXCEPT !.notice = s.nextNotice], s.value)
           ELSE handlerThrow(netFailed(s))]
  /\ UNCHANGED <<evIn, evOut, bot, caller, keyStore, now, policies, approval, logging, vaultKey, vaultFile,
                 logFile, started>>

(***************************************************************************)
(* The specification of the gatekeeper.                                    *)
(***************************************************************************)
\* steps the runtime takes by itself: continuations after local file I/O,
\* timers that are due, loop heads
ProgramStep(c) ==
  \/ EvaluateDaily(c)
  \/ EvaluateMonthly(c)
  \/ GetCard(c)
  \/ LogRead(c)
  \/ LogWrite(c)
  \/ LogFlush(c)
  \/ RequestApproval(c)
  \/ AfterApproval(c)
  \/ TerminalTimeout(c)
  \/ TerminalResolved(c)
  \/ PollLoop(c)
  \/ PollSleep(c)
  \/ TelegramLoop(c)

\* steps that depend on the caller, the human or a remote party
ExternalStep(c) ==
  \/ \E request \in GateRequests : RequestCard(c, request)
  \/ Return(c)
  \/ \E answer \in Replies : TerminalAnswer(c, answer)
  \/ \E resp \in WebhookResponses : WebhookResponse(c, resp)
  \/ \E resp \in PollResponses : PollResponse(c, resp)
  \/ \E ok \in BOOLEAN : TelegramSent(c, ok)
  \/ \E button \in {"approve", "deny"} : TelegramPress(c, button)
  \/ \E resp \in TelegramUpdates : TelegramGetUpdates(c, resp)
  \/ \E ok \in BOOLEAN : TelegramAck(c, ok)
  \/ \E ok \in BOOLEAN : TelegramExpiry(c, ok)
  \/ \E ok \in BOOLEAN : WhatsappSent(c, ok)
  \/ \E reply \in Replies : WhatsappReply(c, reply)
  \/ \E ok \in BOOLEAN : WhatsappNoReply(c, ok)
  \/ \E ok \in BOOLEAN : WhatsappNotified(c, ok)

GateNext ==
  \/ VaultInit
  \/ \E card \in Cards : StoreCard(card)
  \/ TamperVault
  \/ Tick
  \/ \E c \in OneAtATime : ProgramStep(c) \/ Expire(c) \/ ExternalStep(c)

\* the policy evaluation is applied inside EvaluateDaily and EvaluateMonthly
Next == GateNext

Spec == Init /\ [][Next]_vars

\* Node runs a continuation that is ready, and time passes; nothing obliges the
\* human or a remote party to answer
Fairness ==
  \A c \in OneAtATime : WF_vars(ProgramStep(c)) /\ WF_vars(Expire(c))

FairSpec == Spec /\ Fairness

(***************************************************************************)
(* The vault under changes of its key and of its file: cards are stored,   *)
(* deleted and altered, the key is lost and replaced, and requestCard      *)
(* reads the vault on requests the policy approves by itself.              *)
(***************************************************************************)
AutoRequests == { r \in GateRequests : r.amount <= GatePolicy.autoApproveUnder }

VaultSpecInit == Init /\ approval.method = "terminal"

VaultNext ==
  \/ VaultInit
  \/ \E card \in Cards : StoreCard(card)
  \/ \E card \in Cards : StoreCardInterrupted(card)
  \/ DeleteCard
  \/ TamperVault
  \/ LoseKey
  \/ ReplaceKey
  \/ \E c \in OneAtATime :
       \/ \E request \in AutoRequests : RequestCard(c, request)
       \/ EvaluateDaily(c)
       \/ EvaluateMonthly(c)
       \/ GetCard(c)
       \/ LogRead(c)
       \/ LogWrite(c)
       \/ LogFlush(c)
       \/ Return(c)

VaultSpec == VaultSpecInit /\ [][VaultNext]_vars

(***************************************************************************)
(* The key store around the vault object: keytar comes and goes, a new     *)
(* process constructs the vault again, the user exports the printed key.   *)
(***************************************************************************)
\* import("keytar") or getPassword starts to throw
KeychainLost ==
  /\ keyStore.configured = "keychain"
  /\ keyStore.reachable
  /\ keyStore' = [keyStore EXCEPT !.reachable = FALSE]
  /\ vaultKey' = getKey(keyStore').key
  /\ UNCHANGED <<evIn, evOut, bot, caller, now, policies, approval, logging, vaultFile, logFile,
                 started, call>>

\* keytar works again
KeychainBack ==
  /\ keyStore.configured = "keychain"
  /\ ~keyStore.reachable
  /\ keyStore' = [keyStore EXCEPT !.reachable = TRUE]
  /\ vaultKey' = getKey(keyStore').key
  /\ UNCHANGED <<evIn, evOut, bot, caller, now, policies, approval, logging, vaultFile, logFile,
                 started, call>>

\* a new process (each CLI command is one): new Vault(config.vault.keyStorage)
Restart ==
  /\ \A c \in Calls : call[c].pc = "idle"
  /\ keyStore.keyStorage # keyStore.configured
  /\ keyStore' = [keyStore EXCEPT !.keyStorage = keyStore.configured]
  /\ vaultKey' = getKey(keyStore').key
  /\ UNCHANGED <<evIn, evOut, bot, caller, now, policies, approval, logging, vaultFile, logFile,
                 started, call>>

\* the user does what the env backend printed: export CLAWPAYER_KEY=<key>
ExportKey ==
  /\ keyStore.printed # NoKey
  /\ keyStore.env # keyStore.printed
  /\ keyStore' = [keyStore EXCEPT !.env = keyStore.printed]
  /\ vaultKey' = getKey(keyStore').key
  /\ UNCHANGED <<evIn, evOut, bot, caller, now, policies, approval, logging, vaultFile, logFile,
                 started, call>>

\* Vault.storeCard without a key: getKey ran (and fell back) before the throw
StoreCardThrows ==
  /\ vaultKey = NoKey
  /\ keyStore' = afterGetKey(keyStore)
  /\ keyStore' # keyStore
  /\ UNCHANGED <<evIn, evOut, bot, caller, now, policies, approval, logging, vaultKey, vaultFile,
                 logFile, started, call>>

KeySpecInit ==
  /\ evIn = [ request |-> NoRequest, policy |-> GatePolicy, logs |-> <<>>, now |-> 0 ]
  /\ evOut = NoMatch
  /\ now = 0
  /\ policies = GatePolicy
  /\ approval = [method |-> "terminal", configured |-> TRUE, onApproval |-> FALSE]
  /\ logging \in BOOLEAN
  /\ vaultKey = NoKey
  /\ vaultFile = NoFile
  /\ logFile = <<>>
  /\ started = 0
  /\ caller = NoCaller
  /\ bot = NoBot
  /\ call = [c \in Calls |-> IdleCall]
  /\ keyStore \in { KeyStore(backend, reachable) :
                      backend \in KeyBackends, reachable \in BOOLEAN }

KeyNext ==
  \/ VaultInit
  \/ \E card \in Cards : StoreCard(card)
  \/ StoreCardThrows
  \/ KeychainLost
  \/ KeychainBack
  \/ Restart
  \/ ExportKey
  \/ \E c \in OneAtATime :
       \/ \E request \in AutoRequests : RequestCard(c, request)
       \/ EvaluateDaily(c)
       \/ EvaluateMonthly(c)
       \/ GetCard(c)
       \/ LogRead(c)
       \/ LogWrite(c)
       \/ LogFlush(c)
       \/ Return(c)

KeySpec == KeySpecInit /\ [][KeyNext]_vars

(***************************************************************************)
(* The ledger under overlapping calls: requestCard is async, so a second   *)
(* call can start while the first awaits; transactions.json may hold the   *)
(* entries of earlier runs, made with logging enabled.                     *)
(***************************************************************************)
\* requests the policy decides by itself: auto_approve and the blockAbove denial
LedgerRequests == { r \in GateRequests : r.amount # 2 }

\* an approved entry of an earlier run today, with an id no call of this run uses
Earlier(n, amount) ==
  TransactionLog(MaxRequests + n, 0,
                 [amount |-> amount, merchant |-> <<"a">>, description |-> <<>>],
                 PolicyResult("auto_approve", Reason("autoApprove", amount, 0, 0, <<>>)),
                 TRUE, "auto")

\* transactions.json at the start: missing, one entry, an entry that leaves room
\* for one more request, entries that use up the daily limit
Histories ==
  { <<>>, << Earlier(1, 1) >>, << Earlier(1, 2) >>, << Earlier(1, 1), Earlier(2, 2) >> }

\* the vault is initialized and holds a card
LedgerInit ==
  /\ evIn = [ request |-> NoRequest, policy |-> GatePolicy, logs |-> <<>>, now |-> 0 ]
  /\ evOut = NoMatch
  /\ now = 0
  /\ policies = GatePolicy
  /\ approval = [method |-> "terminal", configured |-> TRUE, onApproval |-> FALSE]
  /\ logging \in BOOLEAN
  /\ vaultKey = "k1"
  /\ vaultFile = VaultFile(encrypt(stringify("card1"), "k1"), "card1", "k1", FALSE)
  /\ logFile \in Histories
  /\ started = 0
  /\ caller = NoCaller
  /\ bot = NoBot
  /\ call = [c \in Calls |-> IdleCall]
  /\ keyStore = [KeyStore("keychain", TRUE) EXCEPT !.keychain = "k1",
                                                   !.generated = {"k1"},
                                                   !.committed = "k1"]

LedgerNext ==
  \E c \in Calls :
    \/ \E request \in LedgerRequests : RequestCard(c, request)
    \/ EvaluateDaily(c)
    \/ EvaluateMonthly(c)
    \/ GetCard(c)
    \/ LogRead(c)
    \/ LogWrite(c)
    \/ LogFlush(c)
    \/ Return(c)

LedgerSpec == LedgerInit /\ [][LedgerNext]_vars

(***************************************************************************)
(* Introspection: the embedding code calls getPolicy and hasCard, and does *)
(* what JavaScript lets it do with the object it got.                      *)
(***************************************************************************)
\* an array of the policy holds at most MaxList entries
MaxList == 1

\* the fields of PolicyConfig that hold arrays
ListFields == {"blockedKeywords", "allowedMerchants", "blockedMerchants"}
\* ClawPay.getPolicy, PolicyEngine.getPolicy: { ...this.policy } copies the
\* fields; a field that holds an array is copied as the reference to that array
GetPolicy ==
  /\ caller' = [caller EXCEPT !.held = TRUE, !.policy = policies, !.shared = ListFields]
  /\ UNCHANGED <<evIn, evOut, bot, keyStore, now, policies, approval, logging, vaultKey,
                 vaultFile, logFile, started, call>>

\* ClawPay.hasCard, Vault.hasCard
HasCard ==
  /\ caller' = [caller EXCEPT !.hasCard = IF hasCard(vaultFile) THEN "true" ELSE "false"]
  /\ UNCHANGED <<evIn, evOut, bot, keyStore, now, policies, approval, logging, vaultKey,
                 vaultFile, logFile, started, call>>

\* snapshot.field = value: the field of the copy gets another value
SnapshotAssign(field, value) ==
  /\ caller.held
  /\ caller' = [caller EXCEPT !.policy[field] = value, !.shared = @ \ {field}]
  /\ UNCHANGED <<evIn, evOut, bot, keyStore, now, policies, approval, logging, vaultKey,
                 vaultFile, logFile, started, call>>

\* snapshot.field.push(entry): the array the field refers to grows; while the
\* field still refers to the engine's array, that array is this.policy's
SnapshotPush(field, entry) ==
  /\ caller.held
  /\ Len(caller.policy[field]) < MaxList
  /\ caller' = [caller EXCEPT !.policy[field] = Append(@, entry)]
  /\ policies' = IF field \in caller.shared
                 THEN [policies EXCEPT ![field] = Append(@, entry)]
                 ELSE policies
  /\ UNCHANGED <<evIn, evOut, bot, keyStore, now, approval, logging, vaultKey, vaultFile,
                 logFile, started, call>>

\* the vault holds a card, the ledger is empty
IntrospectInit == LedgerInit /\ logging /\ logFile = <<>>

\* the caller reads, overwrites a number and a list of its copy, and pushes
\* onto the lists of its copy, between the steps of requestCard
IntrospectNext ==
  \/ GetPolicy
  \/ HasCard
  \/ SnapshotAssign("dailyLimit", 1)
  \/ SnapshotAssign("blockedMerchants", <<>>)
  \/ \E field \in ListFields : SnapshotPush(field, <<"a">>)
  \/ DeleteCard
  \/ \E c \in OneAtATime :
       \/ \E request \in LedgerRequests : RequestCard(c, request)
       \/ EvaluateDaily(c)
       \/ EvaluateMonthly(c)
       \/ GetCard(c)
       \/ LogRead(c)
       \/ LogWrite(c)
       \/ LogFlush(c)
       \/ Return(c)

IntrospectSpec == IntrospectInit /\ [][IntrospectNext]_vars

(***************************************************************************)
(* The OpenClaw plugin: its slash commands act on the pendingApprovals     *)
(* map, which register creates empty and which no code adds to.            *)
(***************************************************************************)
\* /clawpay_approve and /clawpay_deny: the resolver stored under the id, if
\* there is one, is called with the decision and deleted; else nothing happens
ClawpayCommand(id, approved) ==
  /\ IF id \in caller.pendingApprovals
     THEN /\ caller' = [caller EXCEPT !.pendingApprovals = @ \ {id}]
          /\ call' = [c \in Calls |->
                        IF call[c].rid = id /\ InApprovalWait(c)
                        THEN handlerReturn(call[c], approved) ELSE call[c]]
     ELSE UNCHANGED <<caller, call>>
  /\ UNCHANGED <<evIn, evOut, bot, keyStore, now, policies, approval, logging, vaultKey,
                 vaultFile, logFile, started>>

PluginNext ==
  \/ GateNext
  \/ \E id \in 1..MaxRequests : \E approved \in BOOLEAN : ClawpayCommand(id, approved)

PluginSpec == Init /\ [][PluginNext]_vars

(***************************************************************************)
(* Two telegramApproval calls on one bot.  Each call builds its own Bot on *)
(* the same token and polls getUpdates with its own offset, which starts   *)
(* at 0; Telegram keeps one stream of updates per token and drops the      *)
(* updates below the offset of a getUpdates call.                          *)
(***************************************************************************)
\* callback_data of a button: approve_${approvalId} or deny_${approvalId}; the
\* approvalId of request c is c
CallbackQuery(id, c, button) == [update_id |-> id, approvalId |-> c, data |-> button]

\* sendMessage returned: pollCallbackQuery starts with offset 0
BotSend(c) ==
  /\ bot.poller[c].pc = "idle"
  /\ bot' = [bot EXCEPT !.poller[c].pc = "poll"]
  /\ UNCHANGED <<evIn, evOut, caller, keyStore, now, policies, approval, logging, vaultKey,
                 vaultFile, logFile, started, call>>

\* the human presses a button of the prompt of request c
BotPress(c, button) ==
  /\ bot.poller[c].pc = "poll"
  /\ bot.poller[c].pressed = "none"
  /\ bot' = [bot EXCEPT !.updates = Append(@, CallbackQuery(bot.nextId, c, button)),
                        !.nextId = @ + 1,
                        !.poller[c].pressed = button]
  /\ UNCHANGED <<evIn, evOut, caller, keyStore, now, policies, approval, logging, vaultKey,
                 vaultFile, logFile, started, call>>

\* getUpdates({offset}): the updates from the offset on; the earlier ones are
\* confirmed and gone
unconfirmed(updates, offset) == SelectSeq(updates, LAMBDA u : u.update_id >= offset)

\* for (const update of updates): offset = update.update_id + 1, until the
\* callback data of this request is met
RECURSIVE forUpdates(_, _, _, _)
forUpdates(c, updates, i, offset) ==
  IF i > Len(updates) THEN [offset |-> offset, hit |-> 0]
  ELSE IF updates[i].approvalId = c THEN [offset |-> updates[i].update_id + 1, hit |-> i]
  ELSE forUpdates(c, updates, i + 1, updates[i].update_id + 1)

\* pollCallbackQuery: one getUpdates and the loop over what it returned
BotGetUpdates(c) ==
  /\ bot.poller[c].pc = "poll"
  /\ LET p == bot.poller[c]
         updates == unconfirmed(bot.updates, p.offset)
         seen == forUpdates(c, updates, 1, p.offset)
     IN  bot' = [bot EXCEPT
           !.updates = updates,
           !.poller[c] =
             IF seen.hit # 0
             THEN [p EXCEPT !.pc = "ack", !.offset = seen.offset,
                            !.result = updates[seen.hit].data]
             ELSE [p EXCEPT !.offset = seen.offset]]
  /\ UNCHANGED <<evIn, evOut, caller, keyStore, now, policies, approval, logging, vaultKey,
                 vaultFile, logFile, started, call>>

\* pollCallbackQuery: answerCallbackQuery, editMessageText, return approved
BotAnswer(c) ==
  /\ bot.poller[c].pc = "ack"
  /\ bot' = [bot EXCEPT !.poller[c].pc = "done"]
  /\ UNCHANGED <<evIn, evOut, caller, keyStore, now, policies, approval, logging, vaultKey,
                 vaultFile, logFile, started, call>>

\* pollCallbackQuery: the deadline passed, the loop ends and false is returned
BotTimeout(c) ==
  /\ bot.poller[c].pc = "poll"
  /\ bot' = [bot EXCEPT !.poller[c].pc = "done", !.poller[c].result = "timeout"]
  /\ UNCHANGED <<evIn, evOut, caller, keyStore, now, policies, approval, logging, vaultKey,
                 vaultFile, logFile, started, call>>

BotInit == Init /\ approval.method = "telegram" /\ approval.configured /\ logging

BotNext ==
  \E c \in Calls :
    \/ BotSend(c)
    \/ \E button \in {"approve", "deny"} : BotPress(c, button)
    \/ BotGetUpdates(c)
    \/ BotAnswer(c)
    \/ BotTimeout(c)

BotSpec == BotInit /\ [][BotNext]_vars

(***************************************************************************)
(* Inputs of the pure evaluation.                                          *)
(***************************************************************************)
Merchants == { <<"A", "b">>, <<"a">> }
Descriptions == { <<"b">>, <<>> }

PaymentRequests ==
  [amount : Amounts, merchant : Merchants, description : Descriptions]

\* configured lists: absent or empty, one entry, an empty entry before another
MerchantLists == { <<>>, << <<"B">> >>, << <<>>, <<"a">> >> }
KeywordLists == { <<>>, << <<"B">> >>, << <<>>, <<"a">> >> }

\* blockAbove below and above autoApproveUnder (the thresholds are not validated);
\* monthlyLimit absent, 0 and positive
Policies ==
  [ autoApproveUnder : {2}, requireApprovalAbove : {2}, blockAbove : {1, 3},
    dailyLimit : {3}, monthlyLimit : {NoLimit, 0, 3},
    blockedKeywords : KeywordLists,
    allowedMerchants : MerchantLists, blockedMerchants : MerchantLists ]

\* the clock of the pure evaluation: the second day of the second month
EvalNow == MonthLen + DayLen + 1

\* timestamps of last month, of this month's first midnight (yesterday), and of
\* today's midnight
EvalTimes == { MonthLen - 1, MonthLen, startOfDay(EvalNow) }

LedgerEntry(t, amount, approved) ==
  [ timestamp |-> t,
    payment |-> [amount |-> amount, merchant |-> <<"a">>, description |-> <<>>],
    approved |-> approved ]

EvalEntries == { LedgerEntry(t, 1, ok) : t \in EvalTimes, ok \in BOOLEAN }

\* Date.now() never decreases, so a log is in timestamp order
inTimeOrder(logs) ==
  \A i \in DOMAIN logs : \A j \in DOMAIN logs :
    i <= j => logs[i].timestamp <= logs[j].timestamp

EvalLedgers ==
  { logs \in UNION { [1..k -> EvalEntries] : k \in 0..MaxLedger } : inTimeOrder(logs) }

InitEval ==
  /\ evIn \in [ request : PaymentRequests, policy : Policies,
                logs : EvalLedgers, now : {EvalNow} ]
  /\ evOut = NoMatch
  /\ now = 0
  /\ policies = GatePolicy
  /\ approval = [method |-> "terminal", configured |-> TRUE, onApproval |-> FALSE]
  /\ logging = TRUE
  /\ vaultKey = NoKey
  /\ vaultFile = NoFile
  /\ logFile = <<>>
  /\ started = 0
  /\ caller = NoCaller
  /\ bot = NoBot
  /\ call = [c \in Calls |-> IdleCall]
  /\ keyStore = KeyStore("keychain", TRUE)

\* one call of PolicyEngine.evaluate on the drawn input
EvalCall ==
  /\ evOut = NoMatch
  /\ evOut' = evaluate(evIn.request, evIn.policy, evIn.logs, evIn.now)
  /\ UNCHANGED evIn
  /\ UNCHANGED gateVars

NextEval == EvalCall

SpecEval == InitEval /\ [][NextEval]_vars

(***************************************************************************)
(* The gatekeeper's contract.                                              *)
(***************************************************************************)
\* the policy evaluation of this call allowed the card: auto_approve, or
\* require_approval with an approval handler that returned true
Granted(s) ==
  \/ s.policyResult.action = "auto_approve"
  \/ s.policyResult.action = "require_approval" /\ s.handler = "true"

\* C1: requestCard returns an approval with the card only if, within the same
\* call, evaluate returned auto_approve, or returned require_approval and the
\* approval handler returned true; every other call that has returned gave its
\* caller neither an approval nor card data.
C1_CardOnlyWhenGranted ==
  \A c \in Calls :
    LET s == call[c]
    IN  /\ s.result.status = "approved" => Granted(s)
        /\ (s.pc = "done" /\ ~Granted(s)) =>
             s.result.status # "approved" /\ s.result.card = NoCard

\* C1 witness: a call returned the card after evaluate asked for approval and the
\* approval handler returned true
C1_Witness ==
  \E c \in Calls :
    /\ call[c].pc = "done"
    /\ call[c].result.status = "approved"
    /\ call[c].result.card # NoCard
    /\ call[c].policyResult.action = "require_approval"
    /\ call[c].handler = "true"

\* the ledger entries written for the request of call c
EntriesOf(c) == { i \in DOMAIN logFile : logFile[i].id = call[c].rid }

\* C2: an approval wait resolves once.  The decision is the one of the signal
\* that came first (a timeout denies, a reply decides by its text), the later
\* signal changes neither the promise nor what the handler returns, and the
\* request has at most one ledger entry and at most one reveal of the card.
C2_ApprovalResolvesOnce ==
  \A c \in Calls :
    LET s == call[c]
        first == s.firstSignal = "reply" /\ s.answered = "yes"
    IN  /\ s.settled => s.value = first
        /\ (approval.method = "terminal" /\ s.handler # "none") =>
             s.settled /\ s.handler = (IF first THEN "true" ELSE "false")
        /\ s.rid # 0 => Cardinality(EntriesOf(c)) <= 1
        /\ s.reveals <= 1

\* C2 witness: the timeout came first, the human's "yes" came after it, and the
\* call returned the denial with one ledger entry and no reveal
C2_Witness ==
  \E c \in Calls :
    /\ call[c].pc = "done"
    /\ call[c].firstSignal = "timeout"
    /\ call[c].answered = "yes"
    /\ call[c].result = Denied(DeniedByUser)
    /\ Cardinality(EntriesOf(c)) = 1
    /\ call[c].reveals = 0

\* C3 as claimed: when the wait of a channel ended by its timeout, the approval
\* result is a denial, and on telegram and whatsapp the prompt has been updated
\* to say that it expired.
C3_TimeoutDeniesAndMarksExpiry ==
  \A c \in Calls :
    LET s == call[c]
    IN  (s.timedOut /\ s.handler # "none") =>
          /\ s.handler = "false"
          /\ (approval.method = "telegram" \/ approval.onApproval) => s.notice = "expired"

\* C4 as claimed: every approval wait started by requestCard eventually returns
\* to requestCard, whatever the remote party does or fails to do.
C4_ApprovalWaitReturns ==
  \A c \in OneAtATime : InApprovalWait(c) ~> ~InApprovalWait(c)

(***************************************************************************)
(* The rules as the specification words them, independently of evaluate.   *)
(***************************************************************************)
\* part occurs in text, ignoring case
SubstringIgnoringCase(text, part) ==
  \E a \in 0..Len(text) :
    /\ a + Len(part) <= Len(text)
    /\ \A k \in 1..Len(part) : lowerChar(text[a + k]) = lowerChar(part[k])

MerchantOnBlockList(request, policy) ==
  \E i \in DOMAIN policy.blockedMerchants :
    SubstringIgnoringCase(request.merchant, policy.blockedMerchants[i])

MerchantOffAllowList(request, policy) ==
  /\ policy.allowedMerchants # <<>>
  /\ \A i \in DOMAIN policy.allowedMerchants :
       ~SubstringIgnoringCase(request.merchant, policy.allowedMerchants[i])

KeywordsFound(request, policy) ==
  { i \in DOMAIN policy.blockedKeywords :
      \/ SubstringIgnoringCase(request.description, policy.blockedKeywords[i])
      \/ SubstringIgnoringCase(request.merchant, policy.blockedKeywords[i]) }

RECURSIVE SumOver(_, _)
SumOver(S, f) ==
  IF S = {} THEN 0
  ELSE LET x == CHOOSE y \in S : TRUE IN f[x] + SumOver(S \ {x}, f)

\* sum of the amounts of the entries with approved = true stamped at or after since
ApprovedSpendSince(logs, since) ==
  SumOver({ i \in DOMAIN logs : logs[i].approved = TRUE /\ logs[i].timestamp >= since },
          [i \in DOMAIN logs |-> logs[i].payment.amount])

DailyLimitExceeded(request, policy, logs, t) ==
  ApprovedSpendSince(logs, startOfDay(t)) + request.amount > policy.dailyLimit

MonthlyLimitExceeded(request, policy, logs, t) ==
  /\ policy.monthlyLimit # NoLimit
  /\ ApprovedSpendSince(logs, startOfMonth(t)) + request.amount > policy.monthlyLimit

\* rules 1 to 4 of the order: none of them matches
NoRuleBeforeDaily(request, policy) ==
  /\ request.amount <= policy.blockAbove
  /\ ~MerchantOnBlockList(request, policy)
  /\ ~MerchantOffAllowList(request, policy)
  /\ KeywordsFound(request, policy) = {}

\* the action and the rule the fixed order of checks selects
FirstRuleInOrder(request, policy, logs, t) ==
  IF request.amount > policy.blockAbove THEN <<"deny", "blockAbove">>
  ELSE IF MerchantOnBlockList(request, policy) THEN <<"deny", "blockedMerchant">>
  ELSE IF MerchantOffAllowList(request, policy) THEN <<"deny", "notAllowedMerchant">>
  ELSE IF KeywordsFound(request, policy) # {} THEN <<"deny", "blockedKeyword">>
  ELSE IF DailyLimitExceeded(request, policy, logs, t) THEN <<"deny", "dailyLimit">>
  ELSE IF MonthlyLimitExceeded(request, policy, logs, t) THEN <<"deny", "monthlyLimit">>
  ELSE IF request.amount <= policy.autoApproveUnder
       THEN <<"auto_approve", "autoApproveUnder">>
  ELSE <<"require_approval", "requireApprovalAbove">>

Evaluated == evOut # NoMatch

(***************************************************************************)
(* Claims about PolicyEngine.evaluate, checked under SpecEval.             *)
(***************************************************************************)

\* C5: every request with amount > blockAbove is denied, whatever the merchant,
\* the description, the lists, the keywords, the ledger and the other
\* thresholds are, and the reason cites the amount and the blockAbove ceiling.
C5_BlockAboveAlwaysDenies ==
  (Evaluated /\ evIn.request.amount > evIn.policy.blockAbove) =>
    /\ evOut.action = "deny"
    /\ evOut.reason.rule = "blockAbove"
    /\ evOut.reason.amount = evIn.request.amount
    /\ evOut.reason.limit = evIn.policy.blockAbove

\* C5 witness: an over-ceiling request that every other rule would also catch
\* or auto-approve has been evaluated.
C5_Witness ==
  /\ Evaluated
  /\ evIn.request.amount > evIn.policy.blockAbove
  /\ MerchantOnBlockList(evIn.request, evIn.policy)
  /\ KeywordsFound(evIn.request, evIn.policy) # {}
  /\ DailyLimitExceeded(evIn.request, evIn.policy, evIn.logs, evIn.now)
  /\ evIn.request.amount <= evIn.policy.autoApproveUnder

NoListOrLimitViolation ==
  /\ ~MerchantOnBlockList(evIn.request, evIn.policy)
  /\ ~MerchantOffAllowList(evIn.request, evIn.policy)
  /\ KeywordsFound(evIn.request, evIn.policy) = {}
  /\ ~DailyLimitExceeded(evIn.request, evIn.policy, evIn.logs, evIn.now)
  /\ ~MonthlyLimitExceeded(evIn.request, evIn.policy, evIn.logs, evIn.now)

\* C6 as claimed: every request with amount <= autoApproveUnder that violates no
\* block-list, allow-list, keyword, daily-limit or monthly-limit rule is
\* auto-approved.
C6_AsClaimed ==
  (Evaluated /\ evIn.request.amount <= evIn.policy.autoApproveUnder
             /\ NoListOrLimitViolation) =>
    evOut.action = "auto_approve"

\* C6 amended: every request with amount <= autoApproveUnder and amount <=
\* blockAbove that violates no block-list, allow-list, keyword, daily-limit or
\* monthly-limit rule is auto-approved.
C6_AutoApproveUnderCeiling ==
  (Evaluated /\ evIn.request.amount <= evIn.policy.autoApproveUnder
             /\ evIn.request.amount <= evIn.policy.blockAbove
             /\ NoListOrLimitViolation) =>
    evOut.action = "auto_approve"

\* C6 witness: a request exactly at the auto-approve threshold, with lists and a
\* ledger configured that it does not violate, has been auto-approved.
C6_Witness ==
  /\ Evaluated
  /\ evIn.request.amount = evIn.policy.autoApproveUnder
  /\ evIn.policy.blockedMerchants # <<>>
  /\ evIn.policy.allowedMerchants # <<>>
  /\ evIn.policy.blockedKeywords # <<>>
  /\ evIn.policy.monthlyLimit > 0
  /\ evIn.logs # <<>>
  /\ NoListOrLimitViolation
  /\ evOut.action = "auto_approve"

\* C7 as claimed: the returned action and reason are those of the first rule,
\* in the order blockAbove, merchant block-list, merchant allow-list, blocked
\* keywords, daily limit, monthly limit, autoApproveUnder, require_approval,
\* that matches, for every combination of matching rules.
C7_FirstMatchingRuleWins ==
  Evaluated =>
    <<evOut.action, evOut.reason.rule>> =
      FirstRuleInOrder(evIn.request, evIn.policy, evIn.logs, evIn.now)

\* C8: whenever the approved spend of the current local day plus the request's
\* amount exceeds dailyLimit the request is denied, never auto-approved or sent
\* for approval, also when amount <= autoApproveUnder; when no earlier rule
\* matched the denial is the daily-limit one.
C8_DailyLimitDenies ==
  (Evaluated /\ DailyLimitExceeded(evIn.request, evIn.policy, evIn.logs, evIn.now)) =>
    /\ evOut.action = "deny"
    /\ NoRuleBeforeDaily(evIn.request, evIn.policy) =>
         /\ evOut.reason.rule = "dailyLimit"
         /\ evOut.reason.spent = ApprovedSpendSince(evIn.logs, startOfDay(evIn.now))
         /\ evOut.reason.limit = evIn.policy.dailyLimit

\* C8 witness: a request small enough to be auto-approved is denied by the daily
\* limit, the ledger holding approved entries of today.
C8_Witness ==
  /\ Evaluated
  /\ evIn.request.amount <= evIn.policy.autoApproveUnder
  /\ NoRuleBeforeDaily(evIn.request, evIn.policy)
  /\ Len(evIn.logs) >= 2
  /\ evIn.request.amount <= evIn.policy.dailyLimit
  /\ evOut.action = "deny"
  /\ evOut.reason.rule = "dailyLimit"

\* C9: in every state, the daily aggregate evaluate computes from the ledger is
\* the sum of the amounts of exactly the entries with approved = true stamped at
\* or after the start of the current day; denied entries never contribute.
C9_DailySpendIsApprovedToday ==
  getTodaySpending(getTransactionLogs(logFile), now)
    = ApprovedSpendSince(logFile, startOfDay(now))

\* C9 witness: the ledger holds a denied entry and an approved entry of the
\* current day, and the aggregate is the approved amount alone
C9_Witness ==
  \E i, j \in DOMAIN logFile :
    /\ ~logFile[i].approved /\ logFile[i].timestamp >= startOfDay(now)
    /\ logFile[j].approved /\ logFile[j].timestamp >= startOfDay(now)
    /\ getTodaySpending(getTransactionLogs(logFile), now) = logFile[j].payment.amount

\* C10 as claimed: for every configured monthlyLimit value, when the approved
\* spend of the current calendar month plus the request's amount exceeds it and
\* no earlier rule matched, the request is denied.
C10_MonthlyLimitDenies ==
  (Evaluated /\ NoRuleBeforeDaily(evIn.request, evIn.policy)
             /\ ~DailyLimitExceeded(evIn.request, evIn.policy, evIn.logs, evIn.now)
             /\ MonthlyLimitExceeded(evIn.request, evIn.policy, evIn.logs, evIn.now)) =>
    evOut.action = "deny"

(***************************************************************************)
(* The branches of requestCard.                                            *)
(***************************************************************************)
\* call c of requestCard starts in this step
Starts(c) == call[c].pc = "idle" /\ call'[c].pc # "idle"

\* the reason the specification words as "no credential available"; the source
\* returns "No card stored. Run `clawpay add-card` first." (NoCardStored)
NoCredentialAvailable == Reason("noCredentialAvailable", 0, 0, 0, <<>>)

\* a call that starts while no card is stored returns at once with a denial for
\* the given reason, with no policy result, no approval handler and the ledger
\* as it was
NoCardReturns(c, reason) ==
  (Starts(c) /\ vaultFile = NoFile) =>
    /\ call'[c].pc = "done"
    /\ call'[c].result = Denied(reason)
    /\ call'[c].policyResult = NoMatch
    /\ call'[c].handler = "none"
    /\ logFile' = logFile

\* C11 as claimed: when no secret is stored, requestCard returns
\* {approved:false, reason:"no credential available"} without evaluating the
\* policy, contacting an approval channel or appending a ledger entry.
C11_AsClaimed ==
  [][\A c \in Calls : NoCardReturns(c, NoCredentialAvailable)]_vars

\* C11 amended: when no card is stored, requestCard returns {approved:false}
\* with the reason "No card stored. Run `clawpay add-card` first.", without
\* evaluating the policy, contacting an approval channel or appending a ledger
\* entry.
C11_NoCardDeniesAtOnce ==
  [][\A c \in Calls : NoCardReturns(c, NoCardStored)]_vars

\* C11 witness: with logging enabled and no card stored, a call has returned the
\* no-card denial and the ledger has no entry of it
C11_Witness ==
  \E c \in Calls :
    /\ logging
    /\ vaultFile = NoFile
    /\ call[c].pc = "done"
    /\ call[c].result = Denied(NoCardStored)
    /\ call[c].policyResult = NoMatch
    /\ EntriesOf(c) = {}

\* the call has asked for an approval or has an answer of the approval handler
ApprovalInvoked(c) ==
  InApprovalWait(c) \/ call[c].pc = "resume" \/ call[c].handler # "none"

\* the ledger has exactly one entry of call c, with these decision fields
OneEntry(c, approved, approvedBy) ==
  /\ Cardinality(EntriesOf(c)) = 1
  /\ \A i \in EntriesOf(c) :
       /\ logFile[i].approved = approved
       /\ logFile[i].approvedBy = approvedBy
       /\ logFile[i].payment = call[c].request
       /\ logFile[i].policyResult = call[c].policyResult

\* a call whose policy result is deny never asks for approval and never reads
\* the card, and once it has returned its result is the denial with the policy
\* result's reason
DenyPath(c) ==
  call[c].policyResult.action = "deny" =>
    /\ ~ApprovalInvoked(c)
    /\ call[c].pc # "getCard"
    /\ call[c].reveals = 0 /\ call[c].card = NoCard
    /\ call[c].pc = "done" => call[c].result = Denied(call[c].policyResult.reason)

\* C12 as claimed: when evaluate returns deny, requestCard appends one ledger
\* entry with approved = false, returns {approved:false} with exactly the
\* policy result's reason, and neither invokes the approval channel nor reveals
\* the credential.
C12_AsClaimed ==
  \A c \in Calls :
    /\ DenyPath(c)
    /\ (call[c].policyResult.action = "deny" /\ call[c].pc = "done") =>
         OneEntry(c, FALSE, "auto")

\* C12 amended: as claimed, with the ledger entry appended when logging is
\* enabled and no entry appended when it is disabled.
C12_DenyLogsAndReturnsReason ==
  \A c \in Calls :
    /\ DenyPath(c)
    /\ (call[c].policyResult.action = "deny" /\ call[c].pc = "done") =>
         IF logging THEN OneEntry(c, FALSE, "auto") ELSE EntriesOf(c) = {}

\* C12 witness: with logging enabled, a call denied by the policy has returned
\* the policy's reason and its one entry is in the ledger
C12_Witness ==
  \E c \in Calls :
    /\ logging
    /\ call[c].pc = "done"
    /\ call[c].policyResult.action = "deny"
    /\ call[c].result = Denied(call[c].policyResult.reason)
    /\ OneEntry(c, FALSE, "auto")

\* call c reads the vault in this step (const card = await this.vault.getCard())
Reveals(c) == call[c].pc = "getCard" /\ call'[c].pc # "getCard"

\* the first ledger entry of call c is written in this step
Appends(c) == EntriesOf(c) = {} /\ EntriesOf(c)' # {}

\* the steps of a call: the card read is the one in the vault at that moment,
\* and an entry with approved = true is written after the card was read
RevealThenAppend(c) ==
  /\ (Reveals(c) /\ getCard(vaultKey, vaultFile).ok) =>
       call'[c].card = vaultFile.stored /\ call'[c].reveals = 1
  /\ (Appends(c) /\ \E i \in EntriesOf(c)' : logFile'[i].approved) =>
       call[c].reveals = 1 /\ call[c].card # NoCard

\* a call that has returned an approval: the card returned is the card read,
\* read once, with one entry in the ledger if logging is enabled
ReturnedCard(c, approvedBy) ==
  /\ call[c].result.status = "approved"
  /\ call[c].result.card = call[c].card /\ call[c].card # NoCard
  /\ call[c].reveals = 1
  /\ IF logging THEN OneEntry(c, TRUE, approvedBy) ELSE EntriesOf(c) = {}

\* a call whose vault read failed: it throws, with no card and no ledger entry
RevealFailed(c) ==
  /\ call[c].result = Threw
  /\ call[c].reveals = 0 /\ call[c].card = NoCard
  /\ EntriesOf(c) = {}

AutoApproved(c) == call[c].policyResult.action = "auto_approve"

\* C13 as claimed: when evaluate returns auto_approve, requestCard reveals the
\* credential, then appends a ledger entry with approved = true and approvedBy =
\* auto, then returns the credential read from the vault; no approval channel is
\* contacted.
C13_AsClaimed ==
  [][\A c \in Calls :
       /\ AutoApproved(c) => RevealThenAppend(c)
       /\ AutoApproved(c)' =>
            /\ ~ApprovalInvoked(c)'
            /\ call'[c].pc = "done" =>
                 ReturnedCard(c, "auto")' /\ OneEntry(c, TRUE, "auto")']_vars

\* C13 amended: when evaluate returns auto_approve, no approval channel is
\* contacted; if the vault read succeeds, requestCard reads the credential
\* stored at that moment, then (with logging enabled) appends one entry with
\* approved = true and approvedBy = auto, then returns exactly the credential it
\* read; if the vault read fails it throws, returns no credential and appends
\* nothing; with logging disabled nothing is appended.
C13_AutoApproveRevealsLogsReturns ==
  [][\A c \in Calls :
       /\ AutoApproved(c) => RevealThenAppend(c)
       /\ AutoApproved(c)' =>
            /\ ~ApprovalInvoked(c)'
            /\ call'[c].pc = "done" =>
                 ReturnedCard(c, "auto")' \/ RevealFailed(c)']_vars

\* C13 witness: with logging enabled, an auto-approved call has returned the card
\* of the vault and its entry is in the ledger
C13_Witness ==
  \E c \in Calls :
    /\ logging
    /\ call[c].pc = "done"
    /\ AutoApproved(c)
    /\ ReturnedCard(c, "auto")
    /\ call[c].result.card = vaultFile.stored

AskedHuman(c) == call[c].policyResult.action = "require_approval"

\* a call that has returned the denial of the human (or of the timeout): no card
\* was read, and the ledger has one entry of it if logging is enabled
ReturnedHumanDenial(c) ==
  /\ call[c].result = Denied(DeniedByUser)
  /\ call[c].reveals = 0 /\ call[c].card = NoCard
  /\ IF logging THEN OneEntry(c, FALSE, "human") ELSE EntriesOf(c) = {}

\* C14 as claimed: when evaluate returns require_approval, an approval that
\* resolves true makes requestCard reveal the credential and append an entry
\* with approved = true, approvedBy = human; an approval that resolves false
\* makes it append an entry with approved = false, approvedBy = human and return
\* a generic denial without revealing the credential.
C14_AsClaimed ==
  [][\A c \in Calls :
       /\ AskedHuman(c) => RevealThenAppend(c)
       /\ (AskedHuman(c)' /\ call'[c].pc = "done" /\ call'[c].handler = "true") =>
            ReturnedCard(c, "human")' /\ OneEntry(c, TRUE, "human")'
       /\ (AskedHuman(c)' /\ call'[c].pc = "done" /\ call'[c].handler = "false") =>
            ReturnedHumanDenial(c)' /\ OneEntry(c, FALSE, "human")']_vars

\* C14 amended: as claimed when logging is enabled and the vault read succeeds;
\* with logging disabled neither branch appends an entry, and when the vault
\* read after an approval fails requestCard throws, returns no credential and
\* appends nothing.
C14_ApprovalDecidesRevealAndEntry ==
  [][\A c \in Calls :
       /\ AskedHuman(c) => RevealThenAppend(c)
       /\ (AskedHuman(c)' /\ call'[c].pc = "done" /\ call'[c].handler = "true") =>
            ReturnedCard(c, "human")' \/ RevealFailed(c)'
       /\ (AskedHuman(c)' /\ call'[c].pc = "done" /\ call'[c].handler = "false") =>
            ReturnedHumanDenial(c)']_vars

\* C14 witness: with logging enabled, the approval wait of a call ended by its
\* timeout and the call returned the generic denial with its human-denied entry
C14_Witness ==
  \E c \in Calls :
    /\ logging
    /\ call[c].pc = "done"
    /\ AskedHuman(c)
    /\ call[c].timedOut
    /\ call[c].handler = "false"
    /\ ReturnedHumanDenial(c)

(***************************************************************************)
(* The approval channels' contract.                                        *)
(***************************************************************************)
\* the human's reply to call c, trimmed and lower-cased, once the approval
\* handler has finished
Normalized(c) == toLowerCase(trim(call[c].reply))
Replied(c) == call[c].answered # "none" /\ call[c].handler # "none"

\* the channel of the calls takes free-text replies over a messaging channel
ReplyChannel == approval.onApproval

\* the affirmative and negative replies of the configured channel
AffirmativeSet == IF ReplyChannel THEN whatsappYes ELSE { <<"y", "e", "s">> }
NegativeSet == IF ReplyChannel THEN whatsappNo ELSE {}

\* C15 as claimed: a channel returns true only for a reply that, trimmed and
\* lower-cased, is in its affirmative set; every reply outside the affirmative
\* and negative sets, the empty one included, yields a denial, and on a reply
\* channel the human is told that the reply was not recognised.
C15_OnlyAffirmativeRepliesApprove ==
  \A c \in Calls :
    Replied(c) =>
      /\ call[c].handler = "true" => Normalized(c) \in AffirmativeSet
      /\ Normalized(c) \notin (AffirmativeSet \cup NegativeSet) =>
           /\ call[c].handler = "false"
           /\ ReplyChannel => call[c].notice = "unrecognized"

\* the configured channel lacks its URL, or its token or chat id
Misconfigured ==
  /\ approval.method \in {"webhook", "slack", "telegram"}
  /\ ~approval.configured
  /\ ~approval.onApproval

\* call c is inside a channel adapter: a prompt, a POST or a message is out
InChannel(c) ==
  call[c].pc \in { "term_wait", "wh_post", "wh_poll", "wh_fetch", "wh_sleep",
                   "tg_send", "tg_loop", "tg_updates", "tg_ack", "tg_timeout",
                   "wa_send", "wa_wait", "wa_notify" }

\* C16: with a channel that lacks its required configuration, no call ever
\* enters a channel adapter (nothing is dispatched, on the configured channel or
\* on another one), the approval handler only ever fails with an error, and a
\* call that needed the approval throws without a card, a vault read or a
\* ledger entry.
C16_MisconfiguredChannelThrows ==
  Misconfigured =>
    \A c \in Calls :
      /\ ~InChannel(c)
      /\ call[c].notice = "none" /\ ~call[c].deadlineSet /\ ~call[c].questionPending
      /\ call[c].handler \in {"none", "threw"}
      /\ (AskedHuman(c) /\ call[c].pc = "done") =>
           /\ call[c].handler = "threw"
           /\ call[c].result = Threw
           /\ call[c].reveals = 0 /\ call[c].card = NoCard
           /\ EntriesOf(c) = {}

\* C16 witness: the telegram channel has no token or chat id, and a call that
\* needed an approval has thrown
C16_Witness ==
  \E c \in Calls :
    /\ Misconfigured
    /\ approval.method = "telegram"
    /\ call[c].pc = "done"
    /\ AskedHuman(c)
    /\ call[c].handler = "threw"
    /\ call[c].result = Threw

\* the methods requestApproval has a case for
KnownMethods == {"terminal", "webhook", "slack", "telegram", "whatsapp", "callback"}

UnknownMethod == approval.method \notin KnownMethods /\ ~approval.onApproval

\* C17: with an approval method that is not a known channel, requestApproval
\* returns false without throwing and without entering a channel, and a call
\* that needed the approval returns {approved:false} with no card and no vault
\* read.
C17_UnknownMethodDenies ==
  UnknownMethod =>
    \A c \in Calls :
      /\ ~InChannel(c)
      /\ call[c].handler \in {"none", "false"}
      /\ (AskedHuman(c) /\ call[c].pc = "done") =>
           /\ call[c].handler = "false"
           /\ call[c].result = Denied(DeniedByUser)
           /\ call[c].reveals = 0 /\ call[c].card = NoCard

\* C17 witness: the method is "sms", and a call that needed an approval has
\* returned the denial
C17_Witness ==
  \E c \in Calls :
    /\ UnknownMethod
    /\ call[c].pc = "done"
    /\ AskedHuman(c)
    /\ call[c].handler = "false"
    /\ call[c].result = Denied(DeniedByUser)

\* the configured channel is the webhook (or slack) adapter or the telegram one
NetworkChannel ==
  /\ approval.method \in {"webhook", "slack", "telegram"}
  /\ approval.configured
  /\ ~approval.onApproval

\* C18 as claimed: on the webhook and telegram adapters, a network error during
\* dispatch or polling is caught and the approval resolves to a denial: the
\* handler does not throw and does not return true.
C18_NetworkErrorsDeny ==
  NetworkChannel =>
    \A c \in Calls :
      (call[c].netError /\ call[c].handler # "none") => call[c].handler = "false"

(***************************************************************************)
(* The vault's contract.                                                   *)
(***************************************************************************)
\* the stored blob is the one storeCard sealed with the vault's present key,
\* unaltered
Verifies(key, file) == file.sealedBy = key /\ ~file.altered

\* the failure the specification names for a vault state
ExpectedFailure(key, file) ==
  IF key = NoKey THEN "NotInitialized"
  ELSE IF file = NoFile THEN "NoSecretStored"
  ELSE "DecryptionFailure"

\* getCard on a vault state: a card exactly when there is a key, a blob and a
\* verifying tag; otherwise the named failure and no plaintext
RevealContract(key, file) ==
  LET g == getCard(key, file)
  IN  /\ g.ok <=> (key # NoKey /\ file # NoFile /\ Verifies(key, file))
      /\ g.ok => g.card \in Cards /\ g.error = "none"
      /\ ~g.ok => g.card = NoCard /\ g.error = ExpectedFailure(key, file)

\* C19: Vault.getCard returns a credential only when a key is available, a blob
\* exists and the blob's tag verifies under that key; otherwise it fails with
\* NotInitialized, NoSecretStored or DecryptionFailure and no plaintext, and the
\* requestCard that read the vault throws with that failure and no card.
C19_RevealFailsClosed ==
  [][/\ RevealContract(vaultKey', vaultFile')
     /\ \A c \in Calls :
          Reveals(c) =>
            IF vaultKey # NoKey /\ vaultFile # NoFile /\ Verifies(vaultKey, vaultFile)
            THEN call'[c].card = getCard(vaultKey, vaultFile).card /\ call'[c].card # NoCard
            ELSE /\ call'[c].result = Threw
                 /\ call'[c].card = NoCard
                 /\ call'[c].error = ExpectedFailure(vaultKey, vaultFile)]_vars

\* C19 witness: the key was lost after a card was stored, and the requestCard
\* that read the vault threw NotInitialized without a card
C19_Witness ==
  \E c \in Calls :
    /\ vaultKey = NoKey /\ vaultFile # NoFile
    /\ call[c].pc = "done"
    /\ call[c].error = "NotInitialized"
    /\ call[c].result = Threw
    /\ call[c].card = NoCard

\* C20: storeCard(c) followed by getCard under the same key returns c, the most
\* recently stored card; with an altered ciphertext or tag, or under another
\* key, getCard fails with DecryptionFailure; getCard never returns a card other
\* than the stored one.
C20_StoreRevealRoundTrip ==
  [][/\ \A card \in Cards :
          StoreCard(card) =>
            getCard(vaultKey', vaultFile') = [ok |-> TRUE, card |-> card, error |-> "none"]
     /\ LET g == getCard(vaultKey', vaultFile')
        IN  /\ g.ok => g.card = vaultFile'.stored
            /\ (vaultKey' # NoKey /\ vaultFile' # NoFile) =>
                 IF Verifies(vaultKey', vaultFile')
                 THEN g.ok /\ g.card = vaultFile'.stored
                 ELSE ~g.ok /\ g.error = "DecryptionFailure"
     /\ \A c \in Calls :
          (Reveals(c) /\ call'[c].card # NoCard) => call'[c].card = vaultFile.stored]_vars

\* C20 witness: the ciphertext of the stored card was altered, the key is the
\* one it was sealed with, and the requestCard that read the vault threw
\* DecryptionFailure
C20_Witness ==
  \E c \in Calls :
    /\ vaultFile # NoFile /\ vaultFile.altered
    /\ vaultFile.data # encrypt(stringify(vaultFile.stored), vaultFile.sealedBy).data
    /\ vaultKey = vaultFile.sealedBy
    /\ call[c].pc = "done"
    /\ call[c].error = "DecryptionFailure"
    /\ call[c].result = Threw

(***************************************************************************)
(* The key's contract.                                                     *)
(***************************************************************************)
\* an init has returned before: it found or produced a key
Initialized == keyStore.committed # NoKey

\* C21: once a call of Vault.init has produced a key, a later call of init
\* leaves that key in place, generates no key, and a card that could be
\* revealed before the call is revealed after it; for the keychain, file and
\* env backends.
C21_InitIdempotent ==
  [][(VaultInit /\ Initialized) =>
       /\ keyStore'.generated = keyStore.generated
       /\ keyStore'.committed = keyStore.committed
       /\ getCard(vaultKey, vaultFile).ok =>
            getCard(vaultKey', vaultFile') = getCard(vaultKey, vaultFile)]_vars

\* C22: after init committed a key, every storeCard seals the blob with that
\* key, and every reveal reads with that key or fails for want of a key; never
\* with another key, whether the keychain is lost or back between the calls.
C22_KeyDecidedOnce ==
  [][Initialized =>
       /\ \A card \in Cards :
            StoreCard(card) => vaultFile'.sealedBy = keyStore.committed
       /\ \A c \in Calls :
            Reveals(c) => vaultKey \in {keyStore.committed, NoKey}]_vars

(***************************************************************************)
(* Errors of the reveal and the ledger.                                    *)
(***************************************************************************)
\* the vault cannot yield the stored card: no key, no blob, or a blob that does
\* not verify under the key
VaultBroken == vaultKey = NoKey \/ vaultFile = NoFile \/ ~Verifies(vaultKey, vaultFile)

\* the ledger holds an entry with approved = true for the request of call c
ApprovedSpendOf(c) == \E i \in EntriesOf(c) : logFile[i].approved

\* C23: when the vault read fails after auto_approve or after a human approval,
\* requestCard throws the vault's error: it does not return an approval or a
\* card, and the ledger gets no entry for the request; an approved entry is in
\* the ledger only for a call that has read the card.
C23_RevealErrorSurfaces ==
  [][\A c \in Calls :
       /\ (Reveals(c) /\ VaultBroken) =>
            /\ Granted(call[c])
            /\ call'[c].pc = "done"
            /\ call'[c].result = Threw
            /\ call'[c].error = ExpectedFailure(vaultKey, vaultFile)
            /\ call'[c].card = NoCard
            /\ logFile' = logFile
       /\ call'[c].error # "none" =>
            /\ call'[c].result.status # "approved"
            /\ EntriesOf(c)' = {}
       /\ ApprovedSpendOf(c)' => call'[c].card # NoCard /\ call'[c].error = "none"]_vars

\* C23 witness: the human approved, the blob no longer verified, and requestCard
\* threw the decryption error with logging enabled and nothing in the ledger
C23_Witness ==
  \E c \in Calls :
    /\ logging
    /\ call[c].pc = "done"
    /\ call[c].policyResult.action = "require_approval"
    /\ call[c].handler = "true"
    /\ VaultBroken
    /\ call[c].error = "DecryptionFailure"
    /\ call[c].result = Threw
    /\ EntriesOf(c) = {}

\* call c has returned an approval or a denial to its caller
Completed(c) == call[c].pc = "done" /\ call[c].result.status \in {"approved", "denied"}

\* call c has returned what the policy, the human or the vault read decided
Decided(c) == Completed(c) /\ call[c].result.reason # NoCardStored

IsPrefix(a, b) == Len(a) <= Len(b) /\ \A i \in DOMAIN a : a[i] = b[i]

\* C25: the ledger is append-only: in every step the array last written to
\* transactions.json is a prefix of the array written after it; no entry is
\* changed, moved or removed.
C25_LedgerAppendOnly ==
  [][IsPrefix(Ledger(logFile), Ledger(logFile'))]_vars

\* logTransaction of call c has run to its end
Logged(c) == call[c].pc = "done" /\ call[c].entry # NoEntry

\* C26: when two calls of requestCard have both run logTransaction to its end,
\* the ledger holds the entry of each, however their reads and writes
\* interleaved.
C26_NoLostUpdate ==
  \A c, d \in Calls :
    (c # d /\ Logged(c) /\ Logged(d)) =>
      /\ \E i \in DOMAIN logFile : logFile[i] = call[c].entry
      /\ \E j \in DOMAIN logFile : logFile[j] = call[d].entry

\* call c reads transactions.json for a spend aggregate in this step
ReadsLedger(c) == call[c].pc \in {"evaluate", "evalMonth"} /\ call'[c].pc # call[c].pc

\* the array that call w is writing
AfterAppend(w) == Append(call[w].logs, call[w].entry)

\* C27: an evaluation that reads the ledger while the append of another call is
\* in progress gets the whole ledger of before the append or the whole ledger
\* of after it, and its daily and monthly aggregates are those of one of the two.
C27_ReadSeesWholeLedger ==
  [][\A c, w \in Calls :
       (ReadsLedger(c) /\ call[w].pc = "logFlush") =>
         /\ getTransactionLogs(logFile) \in {Ledger(logFile), AfterAppend(w)}
         /\ getTodaySpending(getTransactionLogs(logFile), now)
              \in { getTodaySpending(Ledger(logFile), now),
                    getTodaySpending(AfterAppend(w), now) }
         /\ getMonthSpending(getTransactionLogs(logFile), now)
              \in { getMonthSpending(Ledger(logFile), now),
                    getMonthSpending(AfterAppend(w), now) }]_vars

\* evaluate of call c returns in this step
EvaluateReturns(c) ==
  call[c].pc \in {"evaluate", "evalMonth"} /\ call'[c].pc \notin {"evaluate", "evalMonth"}

\* C29: with logging disabled no step changes transactions.json, and evaluate
\* decides as if nothing had been spent: its result is that of the empty
\* ledger, whatever the file holds.
C29_DisabledLoggingSpendsZero ==
  [][~logging =>
       /\ logFile' = logFile
       /\ \A c \in Calls :
            EvaluateReturns(c) =>
              call'[c].policyResult = evaluate(call[c].request, policies, <<>>, now)]_vars

\* C28: a storeCard that stops part-way leaves the previous blob in place: the
\* card that could be revealed before it is still the card revealed after it.
C28_InterruptedStoreKeepsBlob ==
  [][\A card \in Cards :
       (StoreCardInterrupted(card) /\ getCard(vaultKey, vaultFile).ok) =>
         getCard(vaultKey', vaultFile') = getCard(vaultKey, vaultFile)]_vars

(***************************************************************************)
(* Introspection's contract.                                               *)
(***************************************************************************)
\* the results of evaluate on every request, in a state
Evaluations(policy, file, t) ==
  [request \in GateRequests |-> evaluate(request, policy, getTransactionLogs(file), t)]

\* C30: getPolicy and hasCard, and every change the caller makes to the object
\* getPolicy returned (a field assigned, an entry pushed onto one of its
\* lists), leave the ledger, the vault and the active policy as they were, and
\* with them the result of every later evaluate; getPolicy returns the active
\* policy's values.
C30_IntrospectionHasNoEffect ==
  [][/\ GetPolicy => caller'.policy = policies
     /\ caller' # caller =>
          /\ logFile' = logFile
          /\ vaultFile' = vaultFile /\ vaultKey' = vaultKey
          /\ policies' = policies
          /\ Evaluations(policies', logFile', now') = Evaluations(policies, logFile, now)]_vars

(***************************************************************************)
(* Secrecy of the credential.                                              *)
(***************************************************************************)
\* a text names a card
TextHoldsCard(text) == \E i \in DOMAIN text : text[i] \in Cards

\* a payment and a reason, as logged or as shown to the human, name a card
HoldsCard(payment, reason) ==
  \/ TextHoldsCard(payment.merchant)
  \/ TextHoldsCard(payment.description)
  \/ TextHoldsCard(reason.text)

\* C31: no ledger entry (written, or built and about to be written) and no
\* approval request given to a channel holds a field of the stored card; card
\* data is in a result only when that result is an approval, and then it is the
\* card the call read from the vault.
C31_CredentialNeverLogged ==
  /\ \A i \in DOMAIN logFile :
       /\ ~HoldsCard(logFile[i].payment, logFile[i].policyResult.reason)
       /\ logFile[i].approvedBy \notin Cards
  /\ \A c \in Calls :
       /\ ~HoldsCard(call[c].entry.payment, call[c].entry.policyResult.reason)
       /\ call[c].entry.approvedBy \notin Cards
       /\ ~HoldsCard(call[c].message.payment, call[c].message.reason)
       /\ \A res \in {call[c].result, call[c].pending} :
            /\ ~TextHoldsCard(res.reason.text)
            /\ res.card # NoCard => res.status = "approved" /\ res.card = call[c].card

\* C31 witness: a call returned the stored card after the human was shown the
\* request and approved it, and its entry is in the ledger
C31_Witness ==
  \E c \in Calls :
    /\ call[c].pc = "done"
    /\ call[c].result.status = "approved"
    /\ call[c].result.card \in Cards
    /\ call[c].result.card = vaultFile.stored
    /\ call[c].message # NoMessage
    /\ call[c].message.payment = call[c].request
    /\ EntriesOf(c) # {}

(***************************************************************************)
(* The plugin's pending approvals.                                         *)
(***************************************************************************)
\* C32: while a call waits for the human's decision its id is in
\* pendingApprovals; a /clawpay_approve or /clawpay_deny for that id ends the
\* wait with that decision and removes the id; a call that does not wait has
\* no id in the map.
C32_PendingApprovalLifecycle ==
  [][/\ \A c \in Calls :
          /\ InApprovalWait(c) => call[c].rid \in caller.pendingApprovals
          /\ ~InApprovalWait(c) => call[c].rid \notin caller.pendingApprovals
     /\ \A c \in Calls : \A approved \in BOOLEAN :
          (InApprovalWait(c) /\ ClawpayCommand(call[c].rid, approved)) =>
            /\ call'[c].handler = (IF approved THEN "true" ELSE "false")
            /\ call[c].rid \notin caller'.pendingApprovals]_vars

(***************************************************************************)
(* The daily limit over the ledger.                                        *)
(***************************************************************************)
\* the local days of the clock
Days == { startOfDay(t) : t \in 0..MaxTime }

\* sum of the amounts of the entries with approved = true stamped within the day
\* that starts at day
ApprovedSpendOfDay(logs, day) ==
  SumOver({ i \in DOMAIN logs : logs[i].approved = TRUE
                                 /\ startOfDay(logs[i].timestamp) = day },
          [i \in DOMAIN logs |-> logs[i].payment.amount])

\* C33: with calls of requestCard that do not overlap, logging enabled and the
\* policy unchanged, the amounts of the entries with approved = true of any one
\* day sum to at most dailyLimit.
C33_SequentialDailyLimit ==
  logging => \A day \in Days : ApprovedSpendOfDay(logFile, day) <= policies.dailyLimit

\* C33 witness: two approved entries of one day use up the daily limit
C33_Witness ==
  /\ logging
  /\ \E day \in Days : ApprovedSpendOfDay(logFile, day) = policies.dailyLimit
  /\ \E i, j \in DOMAIN logFile :
       i # j /\ logFile[i].approved /\ logFile[j].approved
       /\ startOfDay(logFile[i].timestamp) = startOfDay(logFile[j].timestamp)

\* C34: however two calls of requestCard interleave, the amounts of the entries
\* with approved = true of the day sum to at most dailyLimit, and a call returns
\* the card only if the day's approved entries, its own included, stay within
\* dailyLimit.
C34_ConcurrentDailyLimit ==
  /\ \A day \in Days : ApprovedSpendOfDay(Ledger(logFile), day) <= policies.dailyLimit
  /\ \A c \in Calls :
       (logging /\ call[c].pc = "done" /\ call[c].result.status = "approved") =>
         ApprovedSpendOfDay(Ledger(logFile), startOfDay(call[c].entry.timestamp))
           <= policies.dailyLimit

\* values of requireApprovalAbove: below autoApproveUnder, between the
\* thresholds, above blockAbove
ApprovalThresholds == 0..(MaxAmount + 1)

\* the policy with only requireApprovalAbove changed
withRequireApprovalAbove(policy, v) == [policy EXCEPT !.requireApprovalAbove = v]

\* the request passed the hard block, the lists, the keywords and both limits
PassesChecks ==
  /\ evaluateToDaily(evIn.request, evIn.policy, evIn.logs, evIn.now) = NoMatch
  /\ ruleMonthlyLimit(evIn.request, evIn.policy, evIn.logs, evIn.now) = NoMatch

\* C35: the action evaluate returns is the same for every value of
\* requireApprovalAbove, and an amount above autoApproveUnder and at most
\* blockAbove that passes the list, keyword and limit checks gets
\* require_approval.
C35_RequireApprovalAboveUnused ==
  evOut # NoMatch =>
    /\ \A v \in ApprovalThresholds :
         evaluate(evIn.request, withRequireApprovalAbove(evIn.policy, v),
                  evIn.logs, evIn.now).action = evOut.action
    /\ ( /\ evIn.policy.autoApproveUnder < evIn.request.amount
         /\ evIn.request.amount <= evIn.policy.blockAbove
         /\ PassesChecks ) => evOut.action = "require_approval"

\* C35 witness: an amount between autoApproveUnder and blockAbove got
\* require_approval under a requireApprovalAbove it does not exceed
C35_Witness ==
  /\ evOut.action = "require_approval"
  /\ evIn.policy.autoApproveUnder < evIn.request.amount
  /\ evIn.request.amount <= evIn.policy.blockAbove
  /\ PassesChecks
  /\ evaluate(evIn.request, withRequireApprovalAbove(evIn.policy, evIn.policy.blockAbove + 1),
              evIn.logs, evIn.now).action = "require_approval"

\* C37: with two telegram approvals pending on one bot, a press of a button of
\* request B's prompt resolves B with the pressed decision and no other
\* request: a poller returns only what was pressed on its own prompt, and while
\* B's poller waits, the callback of a press on B's prompt stays deliverable
\* to it.
C37_PressResolvesItsRequest ==
  \A c \in Calls :
    LET p == bot.poller[c]
    IN  /\ p.result \in {"approve", "deny"} => p.result = p.pressed
        /\ (p.pc = "poll" /\ p.pressed # "none") =>
             \E i \in DOMAIN bot.updates : bot.updates[i].approvalId = c

\* the entries requestCard built or wrote: those of the ledger and the one each
\* call is about to write
EntriesWritten ==
  { Ledger(logFile)[i] : i \in DOMAIN Ledger(logFile) }
    \cup { call[c].entry : c \in { d \in Calls : call[d].entry # NoEntry } }

\* C36: every ledger entry fits the path that decided it: a deny entry has
\* approved = false and approvedBy = auto, an auto_approve entry has approved =
\* true and approvedBy = auto, a require_approval entry has approvedBy = human,
\* and no entry is approved with action deny.
C36_EntryMatchesDecisionPath ==
  \A e \in EntriesWritten :
    /\ e.policyResult.action = "deny" => (~e.approved /\ e.approvedBy = "auto")
    /\ e.policyResult.action = "auto_approve" => (e.approved /\ e.approvedBy = "auto")
    /\ e.policyResult.action = "require_approval" => e.approvedBy = "human"
    /\ ~(e.approved /\ e.policyResult.action = "deny")

\* C36 witness: the ledger holds a policy denial and an entry of a request the
\* human approved
C36_Witness ==
  /\ \E i \in DOMAIN logFile :
       ~unparsable(logFile) /\ logFile[i].policyResult.action = "deny"
  /\ \E i \in DOMAIN logFile :
       /\ ~unparsable(logFile)
       /\ logFile[i].policyResult.action = "require_approval"
       /\ logFile[i].approved

====
